---- MODULE Spec2Model ----
(***************************************************************************)
(* Model of the GeminiAutoPM project-management core: the task and epic    *)
(* headers of src/lib/frontmatter.ts, the validation helpers and the       *)
(* Memory Bank (audit log) of src/lib/file-ops.ts, and the pm_init,        *)
(* prd_new, prd_parse and epic_status tools of src/servers/pm-server.ts.   *)
(*                                                                         *)
(* A stored file is a record with a kind: "NoFile" (no such file),         *)
(* "malformed" (a file whose header does not pass the schema) or a file    *)
(* with its validated header in .data.  Task numbers "001".."999" are the  *)
(* naturals 1..999; formatTaskNumber gives their three digits.             *)
(* A file also carries its body in .content.  Timestamps are readings of   *)
(* the clock now (ISO 8601 strings of the same zone order as their         *)
(* instants).  Header fields that no modelled operation reads (name,       *)
(* parallel, assignee, author, version) are left out of the headers.       *)
(***************************************************************************)
EXTENDS Integers, Sequences, FiniteSets, TLC

VARIABLES
  tasks,       \* task number -> stored task file of the epic (.claude/epics/<epic>/NNN.md)
  epic,        \* the stored epic.md of the epic
  memoryBank,  \* the stored memory_bank.md: NoFile or its content as a sequence of chunks
  recordCalls, \* history: logToMemoryBank calls since the log was created or last cleared
  lastOp,      \* name of the operation that ran last
  result,      \* what that operation returned
  input,       \* arguments of the pure function under check
  now,         \* the clock read by new Date()
  prd,         \* the stored PRD of the feature (.claude/prds/<feature>.md)
  dirs,        \* the directories that exist under the project root
  appenders,   \* the logToMemoryBank calls in progress, each with its position
  registry,    \* ToolRegistry.tools: the Map of tool name to descriptor
  cache,       \* Context7Client.cache: the Map of library/topic key to entry
  lookups,     \* the queryContext7MCP calls awaited, each with its caller
  batch        \* the queryAll call in progress: its references and results so far

vars == <<tasks, epic, memoryBank, recordCalls, lastOp, result, input,
          now, prd, dirs, appenders, registry, cache, lookups, batch>>

\* Bounds of the model

MaxTasks == 3      \* task numbers 1..MaxTasks
MaxEdgeTasks == 2  \* task numbers used when both edge lists are set
MaxDeps == 1       \* size of a depends_on / conflicts_with list given to create or update
MaxTotal == 12     \* largest totalTasks given to calculateProgress
MaxLen == 2        \* longest list given to validateConflicts / hasCircularDependency
MaxEntries == 3    \* record calls between two resets of the Memory Bank
MaxAppenders == 2  \* logToMemoryBank calls in progress at the same time
MaxStr == 4        \* longest raw name given to sanitizeEpicName, the long names apart
MaxClock == 2      \* last reading of the clock
MaxNodes == 3      \* tasks of the map given to hasCircularDependency
MaxOut == 1        \* length of a dependency list given to hasCircularDependency
MaxFiles == 2      \* entries of the epic directory read by listTasks
MaxRefs == 2       \* documentation references of a descriptor given to registerTool
MaxLookups == 2    \* queryContext7MCP calls awaited at the same time

TaskIds == 1..MaxTasks

\* Generic helpers

Range(s) == {s[i] : i \in DOMAIN s}

\* { ...cur, ...patch }: object spread, the right operand wins
Spread(cur, patch) ==
  [k \in DOMAIN cur \cup DOMAIN patch |->
     IF k \in DOMAIN patch THEN patch[k] ELSE cur[k]]

NoFile == [kind |-> "NoFile"]

RECURSIVE Reverse(_)
Reverse(s) == IF s = <<>> THEN <<>> ELSE Append(Reverse(Tail(s)), Head(s))

Min(a, b) == IF a < b THEN a ELSE b
Malformed == [kind |-> "malformed"]

NoResult == [kind |-> "none"]
NoInput == [fn |-> "none"]

\* src/lib/frontmatter.ts: schemas

Statuses == {"open", "in-progress", "completed", "blocked"}

PrdStatuses == {"draft", "review", "approved", "implemented"}

Efforts == {"xs", "s", "m", "l", "xl"}

\* TaskFrontmatterSchema.parse succeeds (depends_on and conflicts_with are
\* arrays of arbitrary strings; nothing relates the two lists)
TaskFrontmatterSchemaOk(data) ==
  /\ data.status \in Statuses
  /\ data.created \in Nat
  /\ data.updated \in Nat
  /\ data.depends_on \subseteq Nat
  /\ data.conflicts_with \subseteq Nat
  /\ "effort" \in DOMAIN data => data.effort \in Efforts

\* EpicFrontmatterSchema.parse succeeds
EpicFrontmatterSchemaOk(data) ==
  /\ data.status \in Statuses
  /\ data.created \in Nat
  /\ data.updated \in Nat
  /\ data.progress >= 0 /\ data.progress <= 100
  /\ data.totalTasks >= 0
  /\ data.completedTasks >= 0

\* PrdFrontmatterSchema.parse succeeds
PrdFrontmatterSchemaOk(data) ==
  /\ data.status \in PrdStatuses
  /\ data.created \in Nat
  /\ data.updated \in Nat

\* src/lib/file-ops.ts: task numbers and directory listing

\* generateTaskNumber: String(n).padStart(3, '0'), as its three digits
generateTaskNumber(n) == <<n \div 100, (n \div 10) % 10, n % 10>>

\* JavaScript string order (Array.prototype.sort without comparator)
StrLess(a, b) ==
  \E i \in 1..Len(a) :
     /\ i <= Len(b)
     /\ a[i] < b[i]
     /\ \A j \in 1..(i - 1) : a[j] = b[j]

RECURSIVE SortNames(_)
SortNames(S) ==
  IF S = {} THEN <<>>
  ELSE LET m == CHOOSE x \in S :
                  \A y \in S \ {x} : StrLess(generateTaskNumber(x), generateTaskNumber(y))
       IN <<m>> \o SortNames(S \ {m})

\* listTasks: the NNN.md files of the epic directory, sorted
listTasks(ts) == SortNames({t \in DOMAIN ts : ts[t].kind # "NoFile"})

\* A directory entry is a name, the sequence of its characters, and the
\* answer of Dirent.isFile().
Digits == {"0", "1", "2"}

\* UTF-16 code unit of a character
charCode(c) ==
  CASE c = "." -> 46
    [] c = "0" -> 48
    [] c = "1" -> 49
    [] c = "2" -> 50
    [] c = "a" -> 97
    [] c = "d" -> 100
    [] c = "m" -> 109
    [] c = "x" -> 120

\* a < b on strings: by the first differing code unit, a proper prefix first
NameLess(a, b) ==
  \/ \E i \in 1..Len(a) :
        /\ i <= Len(b)
        /\ charCode(a[i]) < charCode(b[i])
        /\ \A j \in 1..(i - 1) : a[j] = b[j]
  \/ /\ Len(a) < Len(b)
     /\ \A j \in 1..Len(a) : a[j] = b[j]

\* Array.prototype.sort() of distinct names
RECURSIVE sortNames(_)
sortNames(S) ==
  IF S = {} THEN <<>>
  ELSE LET m == CHOOSE x \in S : \A y \in S \ {x} : NameLess(x, y)
       IN <<m>> \o sortNames(S \ {m})

\* a plausible slip: /^\d+\.md$/
matchesTaskFile_anyDigits(name) ==
  \E k \in 1..Len(name) :
     /\ Len(name) = k + 3
     /\ \A i \in 1..k : name[i] \in Digits
     /\ SubSeq(name, k + 1, k + 3) = <<".", "m", "d">>

\* name.match(/^\d{3}\.md$/)
matchesTaskFile(name) ==
  /\ Len(name) = 6
  /\ \A i \in 1..3 : name[i] \in Digits
  /\ SubSeq(name, 4, 6) = <<".", "m", "d">>

\* listTasks over the entries of readdir: [] when the directory is missing
listTasksDir(dirExists, entries) ==
  IF ~dirExists THEN <<>>
  ELSE sortNames({n \in DOMAIN entries : entries[n] /\ matchesTaskFile(n)})

\* a plausible slip: the two arguments taken in the other order
calculateProgress_swapped(totalTasks, completedTasks) ==
  IF completedTasks = 0 THEN 0
  ELSE (200 * totalTasks + completedTasks) \div (2 * completedTasks)

\* calculateProgress: Math.round((completedTasks / totalTasks) * 100);
\* Math.round rounds halves up
calculateProgress(totalTasks, completedTasks) ==
  IF totalTasks = 0 THEN 0
  ELSE (200 * completedTasks + totalTasks) \div (2 * totalTasks)

\* src/lib/file-ops.ts: epic names
\* A string is the sequence of its characters; the characters of the model
\* are two lower-case letters, an upper-case letter, a digit, the hyphen,
\* the space and a punctuation mark.

LowerAlnum == {"a", "b", "1"}
Alphabet == LowerAlnum \cup {"B", "-", " ", "!"}
Alnum == LowerAlnum \cup {"B"}

MinNameLength == 3
MaxNameLength == 50

\* String.prototype.toLowerCase
toLowerCase(str) == [i \in DOMAIN str |-> IF str[i] = "B" THEN "b" ELSE str[i]]

\* String.prototype.trim
RECURSIVE trimStart(_)
trimStart(str) ==
  IF str # <<>> /\ Head(str) = " " THEN trimStart(Tail(str)) ELSE str

trim(str) == Reverse(trimStart(Reverse(trimStart(str))))

\* .replace(/[^a-z0-9-\s]/g, '')
removeInvalid(str) == SelectSeq(str, LAMBDA c : c \in LowerAlnum \cup {"-", " "})

\* .replace(/c+/g, '-'): every run of the character c becomes one hyphen
RECURSIVE replaceRuns(_, _)
replaceRuns(str, c) ==
  IF str = <<>> THEN <<>>
  ELSE IF Head(str) # c THEN <<Head(str)>> \o replaceRuns(Tail(str), c)
  ELSE IF Len(str) > 1 /\ str[2] = c THEN replaceRuns(Tail(str), c)
  ELSE <<"-">> \o replaceRuns(Tail(str), c)

\* .replace(/^-|-$/g, ''): one hyphen off the start, one off the end
stripHyphens(str) ==
  LET a == IF str # <<>> /\ Head(str) = "-" THEN Tail(str) ELSE str
  IN IF a # <<>> /\ a[Len(a)] = "-" THEN SubSeq(a, 1, Len(a) - 1) ELSE a

\* a plausible slip: runs of hyphens are not collapsed
sanitizeEpicName_noCollapse(name) ==
  stripHyphens(replaceRuns(removeInvalid(trim(toLowerCase(name))), " "))

\* sanitizeEpicName
sanitizeEpicName(name) ==
  stripHyphens(replaceRuns(replaceRuns(removeInvalid(trim(toLowerCase(name))), " "), "-"))

\* /^[a-z0-9]+(-[a-z0-9]+)*$/.test(name)
matchesSlug(name) ==
  /\ name # <<>>
  /\ \A i \in DOMAIN name : name[i] \in LowerAlnum \cup {"-"}
  /\ name[1] # "-" /\ name[Len(name)] # "-"
  /\ \A i \in 1..(Len(name) - 1) : ~(name[i] = "-" /\ name[i + 1] = "-")

\* EpicNameSchema.safeParse(name).success
EpicNameSchemaOk(name) ==
  /\ Len(name) >= MinNameLength
  /\ Len(name) <= MaxNameLength
  /\ matchesSlug(name)

\* a plausible slip: the schema without its minimum length
validateEpicName_noMin(name) ==
  IF Len(name) <= MaxNameLength /\ matchesSlug(name) THEN [valid |-> TRUE]
  ELSE [valid |-> FALSE, error |-> "Invalid epic name"]

\* validateEpicName: safeParse, so it returns and never throws
validateEpicName(name) ==
  IF EpicNameSchemaOk(name) THEN [valid |-> TRUE]
  ELSE [valid |-> FALSE, error |-> "Invalid epic name"]

\* new Set(array): the distinct elements in order of first occurrence
RECURSIVE SetOf(_)
SetOf(array) ==
  IF array = <<>> THEN <<>>
  ELSE LET front == SetOf(SubSeq(array, 1, Len(array) - 1))
           last == array[Len(array)]
       IN IF last \in Range(front) THEN front ELSE Append(front, last)

\* the for..of loop of validateConflicts from position i of depSet
RECURSIVE validateConflictsFrom(_, _, _)
validateConflictsFrom(depSet, conflictSet, i) ==
  IF i > Len(depSet) THEN [valid |-> TRUE]
  ELSE IF depSet[i] \in Range(conflictSet)
       THEN [valid |-> FALSE, error |-> depSet[i]]
       ELSE validateConflictsFrom(depSet, conflictSet, i + 1)

\* a plausible slip: only the first dependency is looked up
validateConflicts_firstOnly(dependencies, conflicts) ==
  IF dependencies # <<>> /\ dependencies[1] \in Range(conflicts)
  THEN [valid |-> FALSE, error |-> dependencies[1]]
  ELSE [valid |-> TRUE]

\* validateConflicts; the error message is modelled by the id it names
validateConflicts(dependencies, conflicts) ==
  validateConflictsFrom(SetOf(dependencies), SetOf(conflicts), 1)

\* src/lib/file-ops.ts: hasCircularDependency
\* allTasks is a function from the task numbers of the map to their
\* dependency lists; visited is the Set shared by the calls of checkCircular,
\* so each call returns whether it found the task and the set as it left it.

RECURSIVE checkCircular(_, _, _, _)
RECURSIVE checkCircularDeps(_, _, _, _, _)

\* the for..of loop of checkCircular over deps from position i
checkCircularDeps(deps, i, taskNumber, allTasks, visited) ==
  IF i > Len(deps) THEN [found |-> FALSE, visited |-> visited]
  ELSE LET r == checkCircular(deps[i], taskNumber, allTasks, visited)
       IN IF r.found THEN r
          ELSE checkCircularDeps(deps, i + 1, taskNumber, allTasks, r.visited)

checkCircular(current, taskNumber, allTasks, visited) ==
  IF current = taskNumber THEN [found |-> TRUE, visited |-> visited]
  ELSE IF current \in visited THEN [found |-> FALSE, visited |-> visited]
  ELSE checkCircularDeps(IF current \in DOMAIN allTasks THEN allTasks[current] ELSE <<>>,
                         1, taskNumber, allTasks, visited \cup {current})

\* a plausible slip: only the direct dependencies are compared with the task
hasCircularDependency_direct(taskNumber, dependencies, allTasks) ==
  \E i \in DOMAIN dependencies : dependencies[i] = taskNumber

\* hasCircularDependency: visited.clear() before each dependency
hasCircularDependency(taskNumber, dependencies, allTasks) ==
  \E i \in DOMAIN dependencies :
     checkCircular(dependencies[i], taskNumber, allTasks, {}).found

\* src/lib/frontmatter.ts: create and update

\* createTaskFrontmatter at time t: defaults, then additionalFields, then schema parse
createTaskFrontmatter(additionalFields, t) ==
  LET frontmatter == Spread([status |-> "open", created |-> t, updated |-> t,
                             depends_on |-> {}, conflicts_with |-> {}],
                            additionalFields)
  IN IF TaskFrontmatterSchemaOk(frontmatter)
     THEN [ok |-> TRUE, data |-> frontmatter]
     ELSE [ok |-> FALSE]

\* a plausible slip: the patch is spread after the new timestamp
updateTaskFrontmatter_patchLast(file, updates, t) ==
  IF file.kind # "task" THEN [ok |-> FALSE]
  ELSE LET updatedData == Spread(Spread(file.data, [updated |-> t]), updates)
       IN IF TaskFrontmatterSchemaOk(updatedData)
          THEN [ok |-> TRUE, data |-> updatedData, content |-> file.content]
          ELSE [ok |-> FALSE]

\* updateTaskFrontmatter at time t: parse the stored file, merge, set updated,
\* schema parse, stringify with the parsed content
updateTaskFrontmatter(file, updates, t) ==
  IF file.kind # "task" THEN [ok |-> FALSE]
  ELSE LET updatedData == Spread(Spread(file.data, updates), [updated |-> t])
       IN IF TaskFrontmatterSchemaOk(updatedData)
          THEN [ok |-> TRUE, data |-> updatedData, content |-> file.content]
          ELSE [ok |-> FALSE]

\* createEpicFrontmatter at time t
createEpicFrontmatter(additionalFields, t) ==
  LET frontmatter == Spread([status |-> "open", created |-> t, updated |-> t,
                             progress |-> 0, totalTasks |-> 0, completedTasks |-> 0],
                            additionalFields)
  IN IF EpicFrontmatterSchemaOk(frontmatter)
     THEN [ok |-> TRUE, data |-> frontmatter]
     ELSE [ok |-> FALSE]

\* updateEpicFrontmatter at time t
updateEpicFrontmatter(file, updates, t) ==
  IF file.kind # "epic" THEN [ok |-> FALSE]
  ELSE LET updatedData == Spread(Spread(file.data, updates), [updated |-> t])
       IN IF EpicFrontmatterSchemaOk(updatedData)
          THEN [ok |-> TRUE, data |-> updatedData, content |-> file.content]
          ELSE [ok |-> FALSE]

\* createPrdFrontmatter at time t
createPrdFrontmatter(additionalFields, t) ==
  LET frontmatter == Spread([status |-> "draft", created |-> t, updated |-> t],
                            additionalFields)
  IN IF PrdFrontmatterSchemaOk(frontmatter)
     THEN [ok |-> TRUE, data |-> frontmatter]
     ELSE [ok |-> FALSE]

\* updatePrdFrontmatter at time t
updatePrdFrontmatter(file, updates, t) ==
  IF file.kind # "prd" THEN [ok |-> FALSE]
  ELSE LET updatedData == Spread(Spread(file.data, updates), [updated |-> t])
       IN IF PrdFrontmatterSchemaOk(updatedData)
          THEN [ok |-> TRUE, data |-> updatedData, content |-> file.content]
          ELSE [ok |-> FALSE]

\* the bodies the callers write under a new header
TaskBody == "task body"
EpicBody == "epic template"
PrdBody == "prd template"

ZodError == [kind |-> "error", error |-> "ZodError"]
Ok == [kind |-> "ok"]

\* A caller creates task file t from createTaskFrontmatter(name, additionalFields)
CreateTask(t, additionalFields) ==
  /\ tasks[t].kind = "NoFile"
  /\ LET fm == createTaskFrontmatter(additionalFields, now)
     IN IF fm.ok
        THEN /\ tasks' = [tasks EXCEPT ![t] = [kind |-> "task", data |-> fm.data,
                                                content |-> TaskBody]]
             /\ result' = Ok
        ELSE /\ tasks' = tasks
             /\ result' = ZodError
  /\ lastOp' = "createTask"
  /\ UNCHANGED <<epic, memoryBank, recordCalls, input, now, prd, dirs, appenders,
               registry, cache, lookups, batch>>

\* A caller rewrites task file t with updateTaskFrontmatter(markdown, updates)
UpdateTask(t, updates) ==
  /\ tasks[t].kind # "NoFile"
  /\ LET fm == updateTaskFrontmatter(tasks[t], updates, now)
     IN IF fm.ok
        THEN /\ tasks' = [tasks EXCEPT ![t] = [kind |-> "task", data |-> fm.data,
                                                content |-> fm.content]]
             /\ result' = Ok
        ELSE /\ tasks' = tasks
             /\ result' = ZodError
  /\ lastOp' = "updateTask"
  /\ UNCHANGED <<epic, memoryBank, recordCalls, input, now, prd, dirs, appenders,
               registry, cache, lookups, batch>>

\* prd_parse writes epic.md from createEpicFrontmatter(featureName, additionalFields)
CreateEpic(additionalFields) ==
  /\ LET fm == createEpicFrontmatter(additionalFields, now)
     IN IF fm.ok
        THEN /\ epic' = [kind |-> "epic", data |-> fm.data, content |-> EpicBody]
             /\ result' = Ok
        ELSE /\ epic' = epic
             /\ result' = ZodError
  /\ lastOp' = "createEpic"
  /\ UNCHANGED <<tasks, memoryBank, recordCalls, input, now, prd, dirs, appenders,
               registry, cache, lookups, batch>>

\* A caller rewrites epic.md with updateEpicFrontmatter(markdown, updates)
UpdateEpic(updates) ==
  /\ epic.kind # "NoFile"
  /\ LET fm == updateEpicFrontmatter(epic, updates, now)
     IN IF fm.ok
        THEN /\ epic' = [kind |-> "epic", data |-> fm.data, content |-> fm.content]
             /\ result' = Ok
        ELSE /\ epic' = epic
             /\ result' = ZodError
  /\ lastOp' = "updateEpic"
  /\ UNCHANGED <<tasks, memoryBank, recordCalls, input, now, prd, dirs, appenders,
               registry, cache, lookups, batch>>

\* A caller creates the PRD from createPrdFrontmatter(name, additionalFields)
CreatePrd(additionalFields) ==
  /\ prd.kind = "NoFile"
  /\ LET fm == createPrdFrontmatter(additionalFields, now)
     IN IF fm.ok
        THEN /\ prd' = [kind |-> "prd", data |-> fm.data, content |-> PrdBody]
             /\ result' = Ok
        ELSE /\ prd' = prd
             /\ result' = ZodError
  /\ lastOp' = "createPrd"
  /\ UNCHANGED <<tasks, epic, memoryBank, recordCalls, input, now, dirs, appenders,
               registry, cache, lookups, batch>>

\* A caller rewrites the PRD with updatePrdFrontmatter(markdown, updates)
UpdatePrd(updates) ==
  /\ prd.kind # "NoFile"
  /\ LET fm == updatePrdFrontmatter(prd, updates, now)
     IN IF fm.ok
        THEN /\ prd' = [kind |-> "prd", data |-> fm.data, content |-> fm.content]
             /\ result' = Ok
        ELSE /\ prd' = prd
             /\ result' = ZodError
  /\ lastOp' = "updatePrd"
  /\ UNCHANGED <<tasks, epic, memoryBank, recordCalls, input, now, dirs, appenders,
               registry, cache, lookups, batch>>

\* time passes: a later new Date() reads a later instant
Tick ==
  /\ now < MaxClock
  /\ now' = now + 1
  /\ lastOp' = "tick"
  /\ UNCHANGED <<tasks, epic, memoryBank, recordCalls, result, input, prd, dirs, appenders,
               registry, cache, lookups, batch>>

\* src/lib/file-ops.ts: Memory Bank
\* The content of memory_bank.md is a sequence of chunks of text: the
\* literal "---", whitespace, the header's text, an entry's heading line
\* "## [ts] <mark> Operation: <name>", or other text.  An operation name is
\* a sequence of words, so that one name can be the beginning of another.

Sep == [c |-> "---"]
Blank == [c |-> "blank"]
HeaderText == [c |-> "header"]
Heading(success, operation) == [c |-> "heading", success |-> success, operation |-> operation]
Text(s) == [c |-> "text", s |-> s]

\* the header initMemoryBank writes: title and purpose, "---", blank lines
MemoryBankHeader == <<HeaderText, Sep, Blank>>

\* initMemoryBank: writes the header unless the file exists
initMemoryBank(file) ==
  IF file.kind # "NoFile" THEN file
  ELSE [kind |-> "file", content |-> MemoryBankHeader]

\* formatMemoryBankEntry: heading, details, the context if there is one,
\* the error if there is one, "---"
formatMemoryBankEntry(entry) ==
  <<Heading(entry.success, entry.operation)>>
    \o entry.details
    \o (IF "context" \in DOMAIN entry THEN entry.context ELSE <<>>)
    \o (IF entry.error # <<>> THEN entry.error ELSE <<>>)
    \o <<Sep, Blank>>

\* a plausible slip: the new entry is written over the existing entries
logToMemoryBank_overwrite(file, entry) ==
  [kind |-> "file",
   content |-> MemoryBankHeader \o <<Blank>> \o formatMemoryBankEntry(entry)]

\* logToMemoryBank: the file after the call
logToMemoryBank(file, entry) ==
  LET existingContent == initMemoryBank(file).content
  IN [kind |-> "file",
      content |-> existingContent \o <<Blank>> \o formatMemoryBankEntry(entry)]

\* content.split('---')
RECURSIVE Split(_)
Split(content) ==
  IF \A i \in DOMAIN content : content[i] # Sep THEN <<content>>
  ELSE LET i == CHOOSE k \in DOMAIN content :
                   content[k] = Sep /\ \A j \in 1..(k - 1) : content[j] # Sep
       IN <<SubSeq(content, 1, i - 1)>> \o Split(SubSeq(content, i + 1, Len(content)))

\* .filter(e => e.trim().length > 0)
NonBlank(pieces) ==
  SelectSeq(pieces, LAMBDA e : \E i \in DOMAIN e : e[i] # Blank)

\* entry.includes(`Operation: ${operation}`)
IsPrefix(a, b) == Len(a) <= Len(b) /\ SubSeq(b, 1, Len(a)) = a

IncludesOperation(e, operation) ==
  \E i \in DOMAIN e : e[i].c = "heading" /\ IsPrefix(operation, e[i].operation)

\* readRecentEntries
readRecentEntries(file, limit) ==
  IF file.kind = "NoFile" THEN <<>>
  ELSE LET entries == NonBlank(Split(file.content))
           logEntries == Tail(entries)
           reversed == Reverse(logEntries)
       IN SubSeq(reversed, 1, Min(limit, Len(reversed)))

\* searchMemoryBank
searchMemoryBank(file, operation) ==
  IF file.kind = "NoFile" THEN <<>>
  ELSE SelectSeq(NonBlank(Split(file.content)),
                 LAMBDA e : IncludesOperation(e, operation))

\* number of matches of / Operation:/ with the given mark in the content
CountMarks(content, success) ==
  Cardinality({i \in DOMAIN content :
                 content[i].c = "heading" /\ content[i].success = success})

\* entry.match(/Operation: ([^\n]+)/): the name on the first heading line
OperationOf(e) ==
  IF \E i \in DOMAIN e : e[i].c = "heading"
  THEN e[CHOOSE i \in DOMAIN e :
           e[i].c = "heading" /\ \A j \in 1..(i - 1) : e[j].c # "heading"].operation
  ELSE <<"Unknown">>

RecentOperations == 5

\* getMemoryBankStats
getMemoryBankStats(file) ==
  IF file.kind = "NoFile"
  THEN [totalEntries |-> 0, successfulOperations |-> 0, failedOperations |-> 0,
        recentOperations |-> <<>>]
  ELSE LET entries == NonBlank(Split(file.content))
           recentEntries == readRecentEntries(file, RecentOperations)
       IN [totalEntries |-> IF Len(entries) - 1 > 0 THEN Len(entries) - 1 ELSE 0,
           successfulOperations |-> CountMarks(file.content, TRUE),
           failedOperations |-> CountMarks(file.content, FALSE),
           recentOperations |-> [i \in DOMAIN recentEntries |-> OperationOf(recentEntries[i])]]

\* clearMemoryBank: remove the file, then initMemoryBank
clearMemoryBank(file) == initMemoryBank(NoFile)

Record(entry) ==
  /\ recordCalls < MaxEntries
  /\ memoryBank' = logToMemoryBank(memoryBank, entry)
  /\ recordCalls' = recordCalls + 1
  /\ result' = Ok
  /\ lastOp' = "record"
  /\ UNCHANGED <<tasks, epic, input, now, prd, dirs, appenders,
               registry, cache, lookups, batch>>

ReadRecent(limit) ==
  /\ result' = [kind |-> "entries", entries |-> readRecentEntries(memoryBank, limit)]
  /\ lastOp' = "query"
  /\ UNCHANGED <<tasks, epic, memoryBank, recordCalls, input, now, prd, dirs, appenders,
               registry, cache, lookups, batch>>

Search(operation) ==
  /\ result' = [kind |-> "entries", entries |-> searchMemoryBank(memoryBank, operation)]
  /\ lastOp' = "search"
  /\ UNCHANGED <<tasks, epic, memoryBank, recordCalls, input, now, prd, dirs, appenders,
               registry, cache, lookups, batch>>

Stats ==
  /\ result' = [kind |-> "stats", stats |-> getMemoryBankStats(memoryBank)]
  /\ lastOp' = "stats"
  /\ UNCHANGED <<tasks, epic, memoryBank, recordCalls, input, now, prd, dirs, appenders,
               registry, cache, lookups, batch>>

Clear ==
  /\ memoryBank' = clearMemoryBank(memoryBank)
  /\ recordCalls' = 0
  /\ result' = Ok
  /\ lastOp' = "reset"
  /\ UNCHANGED <<tasks, epic, input, now, prd, dirs, appenders,
               registry, cache, lookups, batch>>

\* logToMemoryBank as the steps between which another call can run: each
\* await of a file-system operation is one step of the calling appender.

AppenderIds == 1..MaxAppenders

\* await pathExists(memoryBankPath) of logToMemoryBank
LogExists(p) ==
  /\ appenders[p].pc = "exists"
  /\ appenders' = [appenders EXCEPT ![p].pc =
                     IF memoryBank.kind # "NoFile" THEN "read" ELSE "initExists"]
  /\ lastOp' = "logExists"
  /\ UNCHANGED <<tasks, epic, memoryBank, recordCalls, result, input, now, prd, dirs,
               registry, cache, lookups, batch>>

\* await pathExists(memoryBankPath) of initMemoryBank
LogInitExists(p) ==
  /\ appenders[p].pc = "initExists"
  /\ appenders' = [appenders EXCEPT ![p].pc =
                     IF memoryBank.kind # "NoFile" THEN "read" ELSE "initWrite"]
  /\ lastOp' = "logInitExists"
  /\ UNCHANGED <<tasks, epic, memoryBank, recordCalls, result, input, now, prd, dirs,
               registry, cache, lookups, batch>>

\* await writeFile(memoryBankPath, header) of initMemoryBank
LogInitWrite(p) ==
  /\ appenders[p].pc = "initWrite"
  /\ memoryBank' = [kind |-> "file", content |-> MemoryBankHeader]
  /\ appenders' = [appenders EXCEPT ![p].pc = "read"]
  /\ lastOp' = "logInitWrite"
  /\ UNCHANGED <<tasks, epic, recordCalls, result, input, now, prd, dirs,
               registry, cache, lookups, batch>>

\* const existingContent = await readFile(memoryBankPath)
LogRead(p) ==
  /\ appenders[p].pc = "read"
  /\ memoryBank.kind = "file"
  /\ appenders' = [appenders EXCEPT ![p].pc = "write",
                                    ![p].existingContent = memoryBank.content]
  /\ lastOp' = "logRead"
  /\ UNCHANGED <<tasks, epic, memoryBank, recordCalls, result, input, now, prd, dirs,
               registry, cache, lookups, batch>>

\* await writeFile(memoryBankPath, existingContent + '\n' + entryMarkdown)
LogWrite(p) ==
  /\ appenders[p].pc = "write"
  /\ memoryBank' = [kind |-> "file",
                    content |-> appenders[p].existingContent \o <<Blank>>
                                  \o formatMemoryBankEntry(appenders[p].entry)]
  /\ appenders' = [appenders EXCEPT ![p].pc = "done"]
  /\ recordCalls' = recordCalls + 1
  /\ lastOp' = "logWrite"
  /\ UNCHANGED <<tasks, epic, result, input, now, prd, dirs,
               registry, cache, lookups, batch>>

\* src/servers/pm-server.ts: pm_init, prd_new, prd_parse
\* The tools act on the project of the working directory.  The model follows
\* one feature: a raw name either sanitizes to Feature or to a name that is
\* not valid, for which no file exists.

\* .claude, .claude/epics, .claude/prds
Layout == {"claude", "epics", "prds"}

\* isClaudeInitialized
isClaudeInitialized(d) == Layout \subseteq d

\* a plausible slip: the layout is made anew
initClaudeStructure_reset(d) == Layout

\* initClaudeStructure: three ensureDir calls
initClaudeStructure(d) == d \cup Layout

\* createEpicDir: ensureDir(.claude/epics/<feature>)
createEpicDir(d) == d \cup {"claude", "epics", "epicDir"}

Feature == <<"a", "b", "1">>

\* the additionalFields prd_parse passes to createEpicFrontmatter
PrdParseFields == [status |-> "open", progress |-> 0]

\* the file at getPrdFilePath(featureName)
PrdOf(featureName) == IF featureName = Feature THEN prd ELSE NoFile

\* createMemoryEntry(operation, details, context, true)
SuccessEntry(operation, details) ==
  [operation |-> <<operation>>, details |-> <<Text(details)>>,
   context |-> <<Text("context")>>, success |-> TRUE, error |-> <<>>]

\* createMemoryEntry(operation, details, context, false, errorMessage)
ErrorEntry(operation, details) ==
  [operation |-> <<operation>>, details |-> <<Text(details)>>,
   context |-> <<Text("context")>>, success |-> FALSE, error |-> <<Text("error message")>>]

\* what a tool handler returns, or that its promise rejected
ToolResult(isError, text) == [kind |-> "tool", isError |-> isError, text |-> text]
Thrown == [kind |-> "thrown"]

\* the catch block of a handler: await logError(...), then return the
\* failure; when logToMemoryBank throws there the handler's promise rejects
Catch(mb, entry, text, logErrorOk) ==
  IF logErrorOk
  THEN [memoryBank |-> logToMemoryBank(mb, entry), logged |-> 1,
        result |-> ToolResult(TRUE, text)]
  ELSE [memoryBank |-> mb, logged |-> 0, result |-> Thrown]

\* the end of a handler's try block: await logSuccess(...), then return the
\* success; when logToMemoryBank throws there the catch block runs
Finish(mb, entry, text, logSuccessOk, errorEntry, errorText, logErrorOk) ==
  IF logSuccessOk
  THEN [memoryBank |-> logToMemoryBank(mb, entry), logged |-> 1,
        result |-> ToolResult(FALSE, text)]
  ELSE Catch(mb, errorEntry, errorText, logErrorOk)

\* initClaudeStructure called on its own
InitClaudeStructure ==
  /\ dirs' = initClaudeStructure(dirs)
  /\ result' = Ok
  /\ lastOp' = "initClaudeStructure"
  /\ UNCHANGED <<tasks, epic, memoryBank, recordCalls, input, now, prd, appenders,
               registry, cache, lookups, batch>>

\* the pm_init handler; logSuccessOk and logErrorOk tell whether the write of
\* logToMemoryBank succeeds in logSuccess and in logError
PmInit(logSuccessOk, logErrorOk) ==
  /\ recordCalls < MaxEntries
  /\ LET initialized == isClaudeInitialized(dirs)
         mb == IF initialized THEN memoryBank ELSE initMemoryBank(memoryBank)
         out == Finish(mb,
                       SuccessEntry("pm_init",
                                    IF initialized THEN "PM structure already initialized"
                                    ELSE "PM structure initialized successfully"),
                       IF initialized THEN "PM structure already initialized"
                       ELSE "PM structure initialized successfully",
                       logSuccessOk,
                       ErrorEntry("pm_init", "Failed to initialize PM structure"),
                       "Failed to initialize PM structure", logErrorOk)
     IN /\ dirs' = IF initialized THEN dirs ELSE initClaudeStructure(dirs)
        /\ memoryBank' = out.memoryBank
        /\ recordCalls' = recordCalls + out.logged
        /\ result' = out.result
  /\ lastOp' = "pm_init"
  /\ UNCHANGED <<tasks, epic, input, now, prd, appenders,
               registry, cache, lookups, batch>>

\* the prd_new handler
PrdNew(name, logSuccessOk, logErrorOk) ==
  /\ recordCalls < MaxEntries
  /\ LET featureName == sanitizeEpicName(name)
     IN IF ~validateEpicName(featureName).valid
        THEN /\ result' = ToolResult(TRUE, "Invalid feature name")
             /\ UNCHANGED <<prd, dirs, memoryBank, recordCalls>>
        ELSE IF PrdOf(featureName).kind # "NoFile"
        THEN /\ result' = ToolResult(FALSE, "PRD already exists")
             /\ UNCHANGED <<prd, dirs, memoryBank, recordCalls>>
        ELSE LET frontmatter == createPrdFrontmatter([status |-> "draft"], now).data
                 out == Finish(memoryBank, SuccessEntry("prd_new", "Created PRD"),
                               "PRD created successfully", logSuccessOk,
                               ErrorEntry("prd_new", "Failed to create PRD"),
                               "Failed to create PRD", logErrorOk)
             IN /\ prd' = [kind |-> "prd", data |-> frontmatter, content |-> PrdBody]
                /\ dirs' = dirs \cup {"claude", "prds"}
                /\ memoryBank' = out.memoryBank
                /\ recordCalls' = recordCalls + out.logged
                /\ result' = out.result
  /\ lastOp' = "prd_new"
  /\ UNCHANGED <<tasks, epic, input, now, appenders,
               registry, cache, lookups, batch>>

\* the prd_parse handler
PrdParse(name, logSuccessOk, logErrorOk) ==
  /\ recordCalls < MaxEntries
  /\ LET featureName == sanitizeEpicName(name)
         file == PrdOf(featureName)
     IN IF file.kind = "NoFile"
        THEN /\ result' = ToolResult(TRUE, "PRD not found")
             /\ UNCHANGED <<epic, dirs, memoryBank, recordCalls>>
        ELSE IF file.kind # "prd"
        THEN LET out == Catch(memoryBank, ErrorEntry("prd_parse", "Failed to parse PRD"),
                              "Failed to convert PRD to Epic", logErrorOk)
             IN /\ memoryBank' = out.memoryBank
                /\ recordCalls' = recordCalls + out.logged
                /\ result' = out.result
                /\ UNCHANGED <<epic, dirs>>
        ELSE LET epicFrontmatter == createEpicFrontmatter(PrdParseFields, now).data
                 out == Finish(memoryBank, SuccessEntry("prd_parse", "Converted PRD to Epic"),
                               "Epic created from PRD", logSuccessOk,
                               ErrorEntry("prd_parse", "Failed to parse PRD"),
                               "Failed to convert PRD to Epic", logErrorOk)
             IN /\ dirs' = createEpicDir(dirs)
                /\ epic' = [kind |-> "epic", data |-> epicFrontmatter, content |-> EpicBody]
                /\ memoryBank' = out.memoryBank
                /\ recordCalls' = recordCalls + out.logged
                /\ result' = out.result
  /\ lastOp' = "prd_parse"
  /\ UNCHANGED <<tasks, input, now, prd, appenders,
               registry, cache, lookups, batch>>

\* src/servers/pm-server.ts: epic_status

\* the tasks of files whose header parses and whose status falls in bucket b
Bucket(ts, taskFiles, b) ==
  SelectSeq(taskFiles, LAMBDA t :
     /\ ts[t].kind = "task"
     /\ IF b = "open"
        THEN ts[t].data.status \notin {"completed", "in-progress", "blocked"}
        ELSE ts[t].data.status = b)

\* a plausible slip: the dependency filter is left out
nextTasks_allOpen(ts, taskFiles) == Bucket(ts, taskFiles, "open")

\* a plausible slip: every task file counts as a met dependency
nextTasks_anyTask(ts, taskFiles) ==
  LET completedTaskNumbers == Range(taskFiles)
  IN SelectSeq(Bucket(ts, taskFiles, "open"), LAMBDA t :
        \/ ts[t].data.depends_on = {}
        \/ \A dep \in ts[t].data.depends_on : dep \in completedTaskNumbers)

\* open tasks with no unmet dependency
nextTasks(ts, taskFiles) ==
  LET completedTaskNumbers == Range(Bucket(ts, taskFiles, "completed"))
  IN SelectSeq(Bucket(ts, taskFiles, "open"), LAMBDA t :
        \/ ts[t].data.depends_on = {}
        \/ \A dep \in ts[t].data.depends_on : dep \in completedTaskNumbers)

epicStatusResult(ep, ts) ==
  IF ep.kind = "NoFile" THEN [kind |-> "error", error |-> "EpicNotFound"]
  ELSE IF ep.kind # "epic" THEN [kind |-> "error", error |-> "Failed"]
  ELSE LET taskFiles == listTasks(ts)
           totalTasks == Len(taskFiles)
           completedCount == Len(Bucket(ts, taskFiles, "completed"))
       IN [kind |-> "status",
           status |-> ep.data.status,
           progress |-> ep.data.progress,
           totalTasks |-> totalTasks,
           completedTasks |-> completedCount,
           inProgressTasks |-> Len(Bucket(ts, taskFiles, "in-progress")),
           blockedTasks |-> Len(Bucket(ts, taskFiles, "blocked")),
           openTasks |-> Len(Bucket(ts, taskFiles, "open")),
           nextTasks |-> nextTasks(ts, taskFiles),
           recommendClose |-> (completedCount = totalTasks /\ totalTasks > 0)]

\* a plausible slip: the epic is closed as soon as closing is recommended
EpicStatus_autoClose ==
  /\ result' = epicStatusResult(epic, tasks)
  /\ lastOp' = "epic_status"
  /\ epic' = IF result'.kind = "status" /\ result'.recommendClose
             THEN [epic EXCEPT !.data.status = "completed"]
             ELSE epic
  /\ UNCHANGED <<tasks, memoryBank, recordCalls, input, now, prd, dirs, appenders,
               registry, cache, lookups, batch>>

\* the epic_status tool handler
EpicStatus ==
  /\ result' = epicStatusResult(epic, tasks)
  /\ lastOp' = "epic_status"
  /\ UNCHANGED <<tasks, epic, memoryBank, recordCalls, input, now, prd, dirs, appenders,
               registry, cache, lookups, batch>>

\* Inputs of the task and epic operations

\* Tasks are numbered in the order they are planned: in this specification
\* the depends_on list given for task t names tasks numbered before t.
DepsBefore(t) == {D \in SUBSET (1..(t - 1)) : Cardinality(D) <= MaxDeps}

StatusInputs == Statuses \cup {"done"}

TaskPatches(t) ==
  {<<>>} \cup {[status |-> s] : s \in StatusInputs}
         \cup {[depends_on |-> D] : D \in DepsBefore(t)}

\* Any task number may be named in either list
EdgeIds == 1..MaxEdgeTasks

EdgeSets == {D \in SUBSET EdgeIds : Cardinality(D) <= MaxDeps}

EdgePatches ==
  {[depends_on |-> D] : D \in EdgeSets}
    \cup {[conflicts_with |-> C] : C \in EdgeSets}
    \cup {[depends_on |-> D, conflicts_with |-> C] : D \in EdgeSets, C \in EdgeSets}

ProgressInputs == {0, 33, 50, 67, 100, 101}

EpicPatches ==
  {<<>>} \cup {[status |-> s] : s \in Statuses \cup {"done"}}
         \cup {[progress |-> p] : p \in ProgressInputs}
         \cup {[totalTasks |-> n] : n \in 0..MaxTasks}
         \cup {[completedTasks |-> n] : n \in 0..MaxTasks}
         \cup {[totalTasks |-> n, completedTasks |-> c, progress |-> calculateProgress(n, c)] :
                 n \in 0..MaxTasks, c \in 0..MaxTasks}

\* src/clients/context7-client.ts: documentation references
\* A reference is the text before its path, "mcp://context7/" or another
\* one, and the rest, a sequence of characters.
Context7Prefix == "mcp://context7/"

Undefined == [kind |-> "undefined"]

ListOfRefs(items) == [kind |-> "list", items |-> items]

\* query.startsWith('mcp://context7/')
startsWithPrefix(query) == query.scheme = Context7Prefix

\* String.prototype.split('/')
RECURSIVE splitSlash(_)
splitSlash(str) ==
  IF \A i \in DOMAIN str : str[i] # "/" THEN <<str>>
  ELSE LET i == CHOOSE k \in DOMAIN str :
                  str[k] = "/" /\ \A j \in 1..(k - 1) : str[j] # "/"
       IN <<SubSeq(str, 1, i - 1)>> \o splitSlash(SubSeq(str, i + 1, Len(str)))

QueriesError(message, query) == [message |-> message, query |-> query]

NoQuery == [scheme |-> "", rest |-> <<>>]

\* the loop of validateQueries from the i-th reference on; warnings holds
\* the references warned about so far
RECURSIVE validateQueriesFrom(_, _, _)
validateQueriesFrom(items, i, warnings) ==
  IF i > Len(items)
  THEN [valid |-> TRUE, error |-> QueriesError("", NoQuery), warnings |-> warnings]
  ELSE IF ~startsWithPrefix(items[i])
  THEN [valid |-> FALSE, error |-> QueriesError("Invalid Context7 query format", items[i]),
        warnings |-> <<>>]
  ELSE validateQueriesFrom(items, i + 1,
         IF Len(splitSlash(items[i].rest)) < 2 THEN Append(warnings, items[i])
         ELSE warnings)

\* a plausible slip: the format check applied to the first reference only
validateQueries_firstOnly(queries) ==
  IF queries = Undefined \/ Len(queries.items) = 0
  THEN [valid |-> FALSE, error |-> QueriesError("missing Context7 queries", NoQuery),
        warnings |-> <<>>]
  ELSE validateQueriesFrom(SubSeq(queries.items, 1, 1), 1, <<>>)

\* validateQueries; warnings: undefined is the empty list
validateQueries(queries) ==
  IF queries = Undefined \/ Len(queries.items) = 0
  THEN [valid |-> FALSE, error |-> QueriesError("missing Context7 queries", NoQuery),
        warnings |-> <<>>]
  ELSE validateQueriesFrom(queries.items, 1, <<>>)

\* parseQuery: /^mcp:\/\/context7\/([^/]+)\/(.+)$/
parseQuery(query) ==
  LET rest == query.rest
      slashes == {k \in DOMAIN rest : rest[k] = "/"}
  IN IF startsWithPrefix(query) /\ slashes # {}
     THEN LET i == CHOOSE k \in slashes : \A j \in slashes : k <= j
          IN IF i > 1 /\ i < Len(rest)
             THEN [ok |-> TRUE, library |-> SubSeq(rest, 1, i - 1),
                   topic |-> SubSeq(rest, i + 1, Len(rest))]
             ELSE [ok |-> FALSE, library |-> <<>>, topic |-> <<>>]
     ELSE [ok |-> FALSE, library |-> <<>>, topic |-> <<>>]

\* src/registry/tool-registry.ts
\* A Map is the sequence of its entries in insertion order.
MapHas(map, key) == \E i \in DOMAIN map : map[i].key = key

MapIndex(map, key) == CHOOSE i \in DOMAIN map : map[i].key = key

\* Map.prototype.get
MapGet(map, key) == IF MapHas(map, key) THEN map[MapIndex(map, key)].value ELSE Undefined

\* Map.prototype.set: the entry of an existing key keeps its place
MapSet(map, key, value) ==
  IF MapHas(map, key)
  THEN [map EXCEPT ![MapIndex(map, key)] = [key |-> key, value |-> value]]
  ELSE Append(map, [key |-> key, value |-> value])

MapDelete(map, key) == SelectSeq(map, LAMBDA e : e.key # key)

MapValues(map) == [i \in DOMAIN map |-> map[i].value]

ToolCategories == {"project-management", "devops"}

RegistryError(message, about) == [kind |-> "error", message |-> message, about |-> about]

Returned(value) == [kind |-> "returned", value |-> value]

\* !s || s.trim().length === 0, on the names and descriptions of the model
IsBlank(s) == s \in {"", " "}

\* validateMetadata: the message of the error thrown, "" when none is
validateMetadata(metadata) ==
  IF IsBlank(metadata.name) THEN "Tool name is required"
  ELSE IF IsBlank(metadata.description) THEN "Tool description is required"
  ELSE IF metadata.inputSchema = "" THEN "Tool input schema is required"
  ELSE IF metadata.context7Queries = Undefined \/ Len(metadata.context7Queries.items) = 0
  THEN "At least one Context7 query is required"
  ELSE IF \E i \in DOMAIN metadata.context7Queries.items :
             ~startsWithPrefix(metadata.context7Queries.items[i])
  THEN "Invalid Context7 query format"
  ELSE IF metadata.version = "" THEN "Tool version is required"
  ELSE IF metadata.category = "" THEN "Tool category is required"
  ELSE ""

has(tools, name) == MapHas(tools, name)

get(tools, name) == MapGet(tools, name)

getByCategory(tools, category) ==
  SelectSeq(MapValues(tools), LAMBDA tool : tool.category = category /\ ~tool.deprecated)

\* a plausible slip: the check for an existing name left out
register_overwrite(tools, name, metadata) ==
  IF validateMetadata(metadata) # ""
  THEN [tools |-> tools, result |-> RegistryError(validateMetadata(metadata), name)]
  ELSE [tools |-> MapSet(tools, name, metadata), result |-> Returned("void")]

register(tools, name, metadata) ==
  IF has(tools, name)
  THEN [tools |-> tools, result |-> RegistryError("already registered", name)]
  ELSE IF validateMetadata(metadata) # ""
  THEN [tools |-> tools, result |-> RegistryError(validateMetadata(metadata), name)]
  ELSE [tools |-> MapSet(tools, name, metadata), result |-> Returned("void")]

\* a plausible slip: the merged descriptor stored before it is validated
update_storeFirst(tools, name, metadata) ==
  IF ~has(tools, name)
  THEN [tools |-> tools, result |-> RegistryError("not found", name)]
  ELSE LET updated == Spread(MapGet(tools, name), metadata)
       IN IF validateMetadata(updated) # ""
          THEN [tools |-> MapSet(tools, name, updated),
                result |-> RegistryError(validateMetadata(updated), name)]
          ELSE [tools |-> MapSet(tools, name, updated), result |-> Returned("void")]

update(tools, name, metadata) ==
  IF ~has(tools, name)
  THEN [tools |-> tools, result |-> RegistryError("not found", name)]
  ELSE LET updated == Spread(MapGet(tools, name), metadata)
       IN IF validateMetadata(updated) # ""
          THEN [tools |-> tools, result |-> RegistryError(validateMetadata(updated), name)]
          ELSE [tools |-> MapSet(tools, name, updated), result |-> Returned("void")]

\* a plausible slip: the deprecated tool taken out of the map
deprecate_remove(tools, name, replacedBy) ==
  IF ~has(tools, name)
  THEN [tools |-> tools, result |-> RegistryError("not found", name)]
  ELSE [tools |-> MapDelete(tools, name), result |-> Returned("void")]

\* deprecate: sets deprecated, and replacedBy when the argument is truthy
deprecate(tools, name, replacedBy) ==
  IF ~has(tools, name)
  THEN [tools |-> tools, result |-> RegistryError("not found", name)]
  ELSE LET tool == MapGet(tools, name)
           marked == [tool EXCEPT !.deprecated = TRUE,
                                  !.replacedBy = IF replacedBy # "" THEN replacedBy ELSE @]
       IN [tools |-> MapSet(tools, name, marked), result |-> Returned("void")]

remove(tools, name) ==
  IF ~has(tools, name)
  THEN [tools |-> tools, result |-> RegistryError("not found", name)]
  ELSE [tools |-> MapDelete(tools, name), result |-> Returned("void")]

\* getStats
getStats(tools) ==
  [totalTools |-> Len(tools),
   byCategory |-> [c \in {tools[i].value.category : i \in DOMAIN tools} |->
                     Cardinality({i \in DOMAIN tools : tools[i].value.category = c})],
   deprecated |-> Cardinality({i \in DOMAIN tools : tools[i].value.deprecated})]

\* the ToolRegistry methods that change the map; input keeps the arguments
Register(name, metadata) ==
  /\ registry' = register(registry, name, metadata).tools
  /\ result' = register(registry, name, metadata).result
  /\ input' = [fn |-> "register", name |-> name, metadata |-> metadata]
  /\ lastOp' = "register"
  /\ UNCHANGED <<tasks, epic, memoryBank, recordCalls, now, prd, dirs, appenders,
                 cache, lookups, batch>>

Update(name, metadata) ==
  /\ registry' = update(registry, name, metadata).tools
  /\ result' = update(registry, name, metadata).result
  /\ input' = [fn |-> "update", name |-> name, metadata |-> metadata]
  /\ lastOp' = "update"
  /\ UNCHANGED <<tasks, epic, memoryBank, recordCalls, now, prd, dirs, appenders,
                 cache, lookups, batch>>

Deprecate(name, replacedBy) ==
  /\ registry' = deprecate(registry, name, replacedBy).tools
  /\ result' = deprecate(registry, name, replacedBy).result
  /\ input' = [fn |-> "deprecate", name |-> name, replacedBy |-> replacedBy]
  /\ lastOp' = "deprecate"
  /\ UNCHANGED <<tasks, epic, memoryBank, recordCalls, now, prd, dirs, appenders,
                 cache, lookups, batch>>

Remove(name) ==
  /\ registry' = remove(registry, name).tools
  /\ result' = remove(registry, name).result
  /\ input' = [fn |-> "remove", name |-> name]
  /\ lastOp' = "remove"
  /\ UNCHANGED <<tasks, epic, memoryBank, recordCalls, now, prd, dirs, appenders,
                 cache, lookups, batch>>

\* src/servers/base-server.ts: registerTool
\* validateTool, then registry.register; validation is what validateQueries
\* returned, whose warnings validateTool logs
registerTool(tools, name, metadata) ==
  LET validation == validateQueries(metadata.context7Queries)
  IN IF ~validation.valid
     THEN [tools |-> tools, validation |-> validation,
           result |-> RegistryError(validation.error.message, name)]
     ELSE [tools |-> register(tools, name, metadata).tools, validation |-> validation,
           result |-> register(tools, name, metadata).result]

RegisterTool ==
  /\ input.fn = "registerTool"
  /\ lastOp = "none"
  /\ registry' = registerTool(registry, input.name, input.metadata).tools
  /\ result' = [kind |-> "registerTool",
                validation |-> registerTool(registry, input.name, input.metadata).validation,
                outcome |-> registerTool(registry, input.name, input.metadata).result]
  /\ lastOp' = "registerTool"
  /\ UNCHANGED <<tasks, epic, memoryBank, recordCalls, input, now, prd, dirs, appenders,
                 cache, lookups, batch>>

NoBatch == [kind |-> "NoBatch"]

\* an empty registry, an empty cache, no lookup awaited
InitClient ==
  /\ registry = <<>>
  /\ cache = <<>>
  /\ lookups = <<>>
  /\ batch = NoBatch

\* src/clients/context7-client.ts: query, queryAll, clearCache
\* The configuration of the client, enableCache and cacheTTL, is in input.

\* `${library}/${topic}`
cacheKey(library, topic) == library \o <<"/">> \o topic

\* the placeholder text of queryContext7MCP, told apart by library and topic
Documentation(key) == [kind |-> "doc", of |-> key]

\* `Error: ${error.message}`
ErrorString(message) == [kind |-> "Error", message |-> message]

\* a plausible slip: an entry as old as cacheTTL still served
cacheHit_inclusive(map, key, t, config) ==
  /\ config.enableCache
  /\ MapHas(map, key)
  /\ t - MapGet(map, key).timestamp <= config.cacheTTL

\* query: enableCache, cached and Date.now() - cached.timestamp < cacheTTL
cacheHit(map, key, t, config) ==
  /\ config.enableCache
  /\ MapHas(map, key)
  /\ t - MapGet(map, key).timestamp < config.cacheTTL

\* query after its await: the entry set when caching is enabled
cacheResult(map, key, t, config) ==
  IF config.enableCache
  THEN MapSet(map, key, [content |-> Documentation(key), timestamp |-> t])
  ELSE map

\* a plausible slip: queryAll without the catch around each reference
settle_noCatch(call, query, ok, doc) ==
  IF ok THEN [call EXCEPT !.results = MapSet(@, query, doc)]
  ELSE [call EXCEPT !.rejected = TRUE]

\* queryAll, the body of the function mapped over the references: the
\* document is set under the reference, or the 'Error: ...' string when
\* parseQuery or query threw
settle(call, query, ok, doc) == [call EXCEPT !.results = MapSet(@, query, doc)]

\* queryAll up to the first await of each reference, from the i-th on: a
\* reference that does not parse or hits the cache is settled, the others
\* await queryContext7MCP
RECURSIVE queryAllFrom(_, _, _, _, _, _)
queryAllFrom(call, waiting, i, map, t, config) ==
  IF i > Len(call.queries) THEN [call |-> call, waiting |-> waiting]
  ELSE LET query == call.queries[i]
           parsed == parseQuery(query)
           key == cacheKey(parsed.library, parsed.topic)
       IN IF ~parsed.ok
          THEN queryAllFrom(settle(call, query, FALSE,
                                   ErrorString("Invalid Context7 query format")),
                            waiting, i + 1, map, t, config)
          ELSE IF cacheHit(map, key, t, config)
          THEN queryAllFrom(settle(call, query, TRUE, MapGet(map, key).content),
                            waiting, i + 1, map, t, config)
          ELSE queryAllFrom(call,
                            Append(waiting, [key |-> key, caller |-> "queryAll",
                                             query |-> query,
                                             cached |-> MapGet(map, key)]),
                            i + 1, map, t, config)

RemoveAt(seq, i) == SubSeq(seq, 1, i - 1) \o SubSeq(seq, i + 1, Len(seq))

\* query(library, topic) up to its return from the cache or its await;
\* cached is the entry that cache.get gave, age the age of the entry returned
Query(key) ==
  /\ input.fn = "client"
  /\ IF cacheHit(cache, key, now, input)
     THEN /\ result' = [kind |-> "query", key |-> key, fromCache |-> TRUE,
                        value |-> MapGet(cache, key).content,
                        age |-> now - MapGet(cache, key).timestamp,
                        cached |-> MapGet(cache, key)]
          /\ lastOp' = "query"
          /\ UNCHANGED lookups
     ELSE /\ Len(lookups) < MaxLookups
          /\ lookups' = Append(lookups, [key |-> key, caller |-> "query", query |-> NoQuery,
                                         cached |-> MapGet(cache, key)])
          /\ lastOp' = "queryAwaits"
          /\ UNCHANGED result
  /\ UNCHANGED <<tasks, epic, memoryBank, recordCalls, input, now, prd, dirs, appenders,
                 registry, cache, batch>>

\* queryAll(queries), called directly or by the wrapped handler of a tool,
\* up to its awaits; one call at a time
QueryAll(queries, caller) ==
  /\ input.fn = "client"
  /\ batch = NoBatch
  /\ LET started == queryAllFrom([queries |-> queries, caller |-> caller,
                                  results |-> <<>>, rejected |-> FALSE],
                                 lookups, 1, cache, now, input)
     IN /\ Len(started.waiting) <= MaxLookups
        /\ batch' = started.call
        /\ lookups' = started.waiting
  /\ lastOp' = "queryAllAwaits"
  /\ UNCHANGED <<tasks, epic, memoryBank, recordCalls, result, input, now, prd, dirs,
                 appenders, registry, cache>>

\* the i-th awaited queryContext7MCP call finishes, with a document or, as
\* the MCP request that the placeholder stands for can, with an error; query
\* goes on after its await
LookupDone(i, ok) ==
  /\ i \in DOMAIN lookups
  /\ LET call == lookups[i]
         doc == IF ok THEN Documentation(call.key) ELSE ErrorString("request failed")
     IN /\ cache' = IF ok THEN cacheResult(cache, call.key, now, input) ELSE cache
        /\ lookups' = RemoveAt(lookups, i)
        /\ IF call.caller = "query"
           THEN /\ result' = IF ok
                             THEN [kind |-> "query", key |-> call.key, fromCache |-> FALSE,
                                   value |-> doc, age |-> 0, cached |-> call.cached]
                             ELSE [kind |-> "queryThrew", key |-> call.key]
                /\ UNCHANGED batch
           ELSE /\ batch' = settle(batch, call.query, ok, doc)
                /\ UNCHANGED result
  /\ lastOp' = "lookupDone"
  /\ UNCHANGED <<tasks, epic, memoryBank, recordCalls, input, now, prd, dirs, appenders,
                 registry>>

\* src/servers/base-server.ts: wrapWithContext7 after its await: the catch
\* leaves context7Docs undefined when queryAll rejected, and the handler is
\* called
wrapWithContext7(call) ==
  [kind |-> "toolCall", queries |-> call.queries,
   context7Docs |-> IF call.rejected THEN Undefined ELSE Returned(call.results),
   handlerCalls |-> 1, value |-> "handler result"]

\* Promise.all settles and queryAll returns, to its caller or to the wrapped
\* handler of a tool
QueryAllReturn ==
  /\ batch # NoBatch
  /\ \A i \in DOMAIN lookups : lookups[i].caller # "queryAll"
  /\ result' = IF batch.caller = "tool"
               THEN wrapWithContext7(batch)
               ELSE [kind |-> "queryAll", queries |-> batch.queries,
                     rejected |-> batch.rejected, docs |-> batch.results]
  /\ batch' = NoBatch
  /\ lastOp' = "queryAllReturn"
  /\ UNCHANGED <<tasks, epic, memoryBank, recordCalls, input, now, prd, dirs, appenders,
                 registry, cache, lookups>>

\* clearCache
ClearCache ==
  /\ input.fn = "client"
  /\ cache' = <<>>
  /\ lastOp' = "clearCache"
  /\ UNCHANGED <<tasks, epic, memoryBank, recordCalls, result, input, now, prd, dirs,
                 appenders, registry, lookups, batch>>

\* nothing of the layout exists, no call is in progress
InitRest ==
  /\ now = 0
  /\ prd = NoFile
  /\ dirs = {}
  /\ appenders = <<>>
  /\ InitClient

InitOther ==
  /\ memoryBank = NoFile
  /\ recordCalls = 0
  /\ lastOp = "none"
  /\ result = NoResult
  /\ input = NoInput
  /\ InitRest

\* Specification of the task store of one epic created by prd_parse
Init ==
  /\ tasks \in [TaskIds -> {NoFile, Malformed}]
  /\ epic = [kind |-> "epic", data |-> createEpicFrontmatter(PrdParseFields, 0).data,
              content |-> EpicBody]
  /\ InitOther

Next ==
  \/ \E t \in TaskIds : \E p \in TaskPatches(t) : CreateTask(t, p)
  \/ \E t \in TaskIds : \E p \in TaskPatches(t) : UpdateTask(t, p)
  \/ EpicStatus

Spec == Init /\ [][Next]_vars

\* Specification of the task headers with arbitrary dependency and conflict lists
InitEdges ==
  /\ tasks = [t \in TaskIds |-> NoFile]
  /\ epic = NoFile
  /\ InitOther

NextEdges ==
  \/ \E t \in EdgeIds, p \in EdgePatches : CreateTask(t, p)
  \/ \E t \in EdgeIds, p \in EdgePatches : UpdateTask(t, p)

SpecEdges == InitEdges /\ [][NextEdges]_vars

\* Specification of the epic header
InitEpic ==
  /\ tasks = [t \in TaskIds |-> NoFile]
  /\ epic = NoFile
  /\ InitOther

NextEpic ==
  \/ \E p \in EpicPatches : CreateEpic(p)
  \/ \E p \in EpicPatches : UpdateEpic(p)
  \/ EpicStatus

SpecEpic == InitEpic /\ [][NextEpic]_vars

\* Specification of validateConflicts applied to bounded lists
Lists == UNION {[1..n -> TaskIds] : n \in 0..MaxLen}

InitConflicts ==
  /\ tasks = [t \in TaskIds |-> NoFile]
  /\ epic = NoFile
  /\ memoryBank = NoFile
  /\ recordCalls = 0
  /\ lastOp = "none"
  /\ result = NoResult
  /\ InitRest
  /\ input \in {[fn |-> "validateConflicts", dependencies |-> d, conflicts |-> c] :
                  d \in Lists, c \in Lists}

ValidateConflicts ==
  /\ input.fn = "validateConflicts"
  /\ lastOp = "none"
  /\ result' = validateConflicts(input.dependencies, input.conflicts)
  /\ lastOp' = "validateConflicts"
  /\ UNCHANGED <<tasks, epic, memoryBank, recordCalls, input, now, prd, dirs, appenders,
               registry, cache, lookups, batch>>

NextConflicts == ValidateConflicts

SpecConflicts == InitConflicts /\ [][NextConflicts]_vars

\* Specification of calculateProgress along the completion of an epic's tasks
InitProgress ==
  /\ tasks = [t \in TaskIds |-> NoFile]
  /\ epic = NoFile
  /\ memoryBank = NoFile
  /\ recordCalls = 0
  /\ lastOp = "none"
  /\ result = NoResult
  /\ InitRest
  /\ input \in {[fn |-> "calculateProgress", totalTasks |-> n, completedTasks |-> c] :
                  n \in 0..MaxTotal, c \in 0..MaxTotal}
  /\ input.completedTasks <= input.totalTasks

CalculateProgress ==
  /\ input.fn = "calculateProgress"
  /\ lastOp # "calculateProgress"
  /\ result' = [kind |-> "progress",
                totalTasks |-> input.totalTasks,
                completedTasks |-> input.completedTasks,
                value |-> calculateProgress(input.totalTasks, input.completedTasks)]
  /\ lastOp' = "calculateProgress"
  /\ UNCHANGED <<tasks, epic, memoryBank, recordCalls, input, now, prd, dirs, appenders,
               registry, cache, lookups, batch>>

\* one more open task of the epic is marked completed
CompleteTask ==
  /\ input.fn = "calculateProgress"
  /\ lastOp = "calculateProgress"
  /\ input.completedTasks < input.totalTasks
  /\ input' = [input EXCEPT !.completedTasks = @ + 1]
  /\ lastOp' = "completeTask"
  /\ UNCHANGED <<tasks, epic, memoryBank, recordCalls, result, now, prd, dirs, appenders,
               registry, cache, lookups, batch>>

NextProgress == CalculateProgress \/ CompleteTask

SpecProgress == InitProgress /\ [][NextProgress]_vars

\* Specification of listTasks applied to bounded directories
DirNames ==
  {<<"0", "0", "1", ".", "m", "d">>, <<"0", "0", "2", ".", "m", "d">>,
   <<"0", "1", "0", ".", "m", "d">>, <<"1", "0", "0", ".", "m", "d">>,
   <<"2", ".", "m", "d">>, <<"0", "0", "0", "1", ".", "m", "d">>,
   <<"0", "0", "1", ".", "m", "d", "x">>, <<"a", "0", "1", ".", "m", "d">>,
   <<"0", "0", "1", "a", "m", "d">>, <<"a", ".", "m", "d">>}

\* the entries of a directory: distinct names, each a file or not
Directories ==
  UNION {[D -> BOOLEAN] : D \in {X \in SUBSET DirNames : Cardinality(X) <= MaxFiles}}

InitList ==
  /\ tasks = [t \in TaskIds |-> NoFile]
  /\ epic = NoFile
  /\ memoryBank = NoFile
  /\ recordCalls = 0
  /\ lastOp = "none"
  /\ result = NoResult
  /\ InitRest
  /\ input \in {[fn |-> "listTasks", dirExists |-> x, entries |-> e] :
                  x \in BOOLEAN, e \in Directories}

ListTasks ==
  /\ input.fn = "listTasks"
  /\ lastOp = "none"
  /\ result' = [kind |-> "names", value |-> listTasksDir(input.dirExists, input.entries)]
  /\ lastOp' = "listTasks"
  /\ UNCHANGED <<tasks, epic, memoryBank, recordCalls, input, now, prd, dirs, appenders,
               registry, cache, lookups, batch>>

NextList == ListTasks

SpecList == InitList /\ [][NextList]_vars

\* Specification of hasCircularDependency applied to bounded task maps
NodeIds == 1..MaxNodes

\* a task number that the map does not hold
UnknownId == 0

\* the elements of a set of numbers as an ascending list
RECURSIVE ListOf(_)
ListOf(S) ==
  IF S = {} THEN <<>>
  ELSE LET m == CHOOSE x \in S : \A y \in S : x <= y
       IN <<m>> \o ListOf(S \ {m})

DepLists(ids) == {ListOf(D) : D \in {X \in SUBSET ids : Cardinality(X) <= MaxOut}}

\* the map holds the dependency lists of the other tasks; the list of the
\* task under check is the argument dependencies
InitCircular ==
  /\ tasks = [t \in TaskIds |-> NoFile]
  /\ epic = NoFile
  /\ memoryBank = NoFile
  /\ recordCalls = 0
  /\ lastOp = "none"
  /\ result = NoResult
  /\ InitRest
  /\ \E t \in NodeIds, d \in DepLists(NodeIds \cup {UnknownId}) :
       \E m \in [NodeIds \ {t} -> DepLists(NodeIds)] :
         input = [fn |-> "hasCircularDependency", taskNumber |-> t, dependencies |-> d,
                  allTasks |-> m]

HasCircularDependency ==
  /\ input.fn = "hasCircularDependency"
  /\ lastOp = "none"
  /\ result' = [kind |-> "circular",
                value |-> hasCircularDependency(input.taskNumber, input.dependencies,
                                                input.allTasks)]
  /\ lastOp' = "hasCircularDependency"
  /\ UNCHANGED <<tasks, epic, memoryBank, recordCalls, input, now, prd, dirs, appenders,
               registry, cache, lookups, batch>>

NextCircular == HasCircularDependency

SpecCircular == InitCircular /\ [][NextCircular]_vars

\* Specification of the tool registry
RegisteredNames == {"pm_init", "prd_new"}

GoodRef == [scheme |-> Context7Prefix, rest |-> <<"a", "/", "a">>]

ForeignRef == [scheme |-> "https://", rest |-> <<"a", "/", "a">>]

\* a descriptor that validateMetadata accepts
Descriptor(name, category) ==
  [name |-> name, category |-> category, description |-> "does it",
   inputSchema |-> "schema", context7Queries |-> ListOfRefs(<<GoodRef>>),
   version |-> "1.0.0", deprecated |-> FALSE, replacedBy |-> ""]

\* the fields that a descriptor given to register or update can get wrong
Defects ==
  {[name |-> ""], [name |-> " "], [description |-> ""], [inputSchema |-> ""],
   [context7Queries |-> Undefined], [context7Queries |-> ListOfRefs(<<>>)],
   [context7Queries |-> ListOfRefs(<<GoodRef, ForeignRef>>)],
   [version |-> ""], [category |-> ""],
   [version |-> "", context7Queries |-> ListOfRefs(<<ForeignRef>>)]}

DescriptorInputs(name) ==
  {Descriptor(name, c) : c \in ToolCategories}
  \cup {Spread(Descriptor(name, "devops"), d) : d \in Defects}

\* the partial descriptors given to update
UpdateInputs ==
  {[description |-> ""], [context7Queries |-> ListOfRefs(<<>>)], [version |-> ""],
   [category |-> "", context7Queries |-> ListOfRefs(<<ForeignRef>>)],
   <<>>, [category |-> "devops"], [deprecated |-> FALSE]}

InitRegistry ==
  /\ tasks = [t \in TaskIds |-> NoFile]
  /\ epic = NoFile
  /\ memoryBank = NoFile
  /\ recordCalls = 0
  /\ lastOp = "none"
  /\ result = NoResult
  /\ input = NoInput
  /\ InitRest

NextRegistry ==
  \/ \E name \in RegisteredNames : \E metadata \in DescriptorInputs(name) : Register(name, metadata)
  \/ \E name \in RegisteredNames, metadata \in UpdateInputs : Update(name, metadata)
  \/ \E name \in RegisteredNames, replacedBy \in {"prd_new", ""} :
        Deprecate(name, replacedBy)
  \/ \E name \in RegisteredNames : Remove(name)

SpecRegistry == InitRegistry /\ [][NextRegistry]_vars

\* Specification of registerTool applied to descriptors with bounded lists
\* of documentation references
RefInputs ==
  {[scheme |-> Context7Prefix, rest |-> r] :
     r \in {<<>>, <<"a">>, <<"a", "/">>, <<"/", "a">>, <<"a", "/", "a">>,
            <<"a", "/", "a", "/", "a">>}}
  \cup {ForeignRef, [scheme |-> "mcp://context7", rest |-> <<"a">>]}

QueryInputs ==
  {Undefined} \cup {ListOfRefs(l) : l \in UNION {[1..k -> RefInputs] : k \in 0..MaxRefs}}

InitServer ==
  /\ tasks = [t \in TaskIds |-> NoFile]
  /\ epic = NoFile
  /\ memoryBank = NoFile
  /\ recordCalls = 0
  /\ lastOp = "none"
  /\ result = NoResult
  /\ now = 0
  /\ prd = NoFile
  /\ dirs = {}
  /\ appenders = <<>>
  /\ cache = <<>>
  /\ lookups = <<>>
  /\ batch = NoBatch
  /\ registry \in {<<>>, <<[key |-> "prd_new", value |-> Descriptor("prd_new", "devops")]>>}
  /\ input \in {[fn |-> "registerTool", name |-> name,
                 metadata |-> Spread(Descriptor(name, "project-management"),
                                     [context7Queries |-> q])] :
                  name \in RegisteredNames, q \in QueryInputs}

NextServer == RegisterTool

SpecServer == InitServer /\ [][NextServer]_vars

\* Specification of the Context7 client: queries, alone and in lists, that
\* overlap in time, clearCache and the clock
OtherRef == [scheme |-> Context7Prefix, rest |-> <<"b", "/", "a">>]

ShortRef == [scheme |-> Context7Prefix, rest |-> <<"a">>]

CacheKeys == {GoodRef.rest, OtherRef.rest}

QueryLists == {<<GoodRef, GoodRef>>, <<ShortRef, OtherRef>>}

ToolQueryLists ==
  {<<GoodRef>>, <<ShortRef>>, <<GoodRef, GoodRef>>, <<GoodRef, OtherRef>>,
   <<ShortRef, GoodRef>>, <<GoodRef, ShortRef, GoodRef>>}

InitContext7 ==
  /\ tasks = [t \in TaskIds |-> NoFile]
  /\ epic = NoFile
  /\ memoryBank = NoFile
  /\ recordCalls = 0
  /\ lastOp = "none"
  /\ result = NoResult
  /\ InitRest
  /\ input \in {[fn |-> "client", enableCache |-> e, cacheTTL |-> ttl] :
                  e \in BOOLEAN, ttl \in {1, 2}}

NextContext7 ==
  \/ \E key \in CacheKeys : Query(key)
  \/ \E queries \in QueryLists : QueryAll(queries, "queryAll")
  \/ \E i \in 1..MaxLookups, ok \in BOOLEAN : LookupDone(i, ok)
  \/ QueryAllReturn
  \/ ClearCache
  \/ Tick

SpecContext7 == InitContext7 /\ [][NextContext7]_vars

\* Specification of the lookups of one client for tool calls and queryAll
\* calls, with the cache enabled and the clock standing still
InitToolCall ==
  /\ tasks = [t \in TaskIds |-> NoFile]
  /\ epic = NoFile
  /\ memoryBank = NoFile
  /\ recordCalls = 0
  /\ lastOp = "none"
  /\ result = NoResult
  /\ InitRest
  /\ input = [fn |-> "client", enableCache |-> TRUE, cacheTTL |-> 1]

NextToolCall ==
  \/ \E queries \in ToolQueryLists, caller \in {"queryAll", "tool"} :
        QueryAll(queries, caller)
  \/ \E i \in 1..MaxLookups, ok \in BOOLEAN : LookupDone(i, ok)
  \/ QueryAllReturn

SpecToolCall == InitToolCall /\ [][NextToolCall]_vars

\* Specification of the Memory Bank
Operations == {<<"prd">>, <<"prd", "new">>}

DetailInputs == {<<Text("created")>>, <<Text("see"), Sep, Text("notes")>>}

EntryInputs ==
  {[operation |-> op, details |-> d, success |-> TRUE, error |-> <<>>] :
      op \in Operations, d \in DetailInputs}
  \cup
  {[operation |-> op, details |-> d, success |-> FALSE, error |-> <<Text("failed")>>] :
      op \in Operations, d \in DetailInputs}

InitLog ==
  /\ tasks = [t \in TaskIds |-> NoFile]
  /\ epic = NoFile
  /\ InitOther

NextLog ==
  \/ \E e \in EntryInputs : Record(e)
  \/ \E limit \in 1..MaxEntries : ReadRecent(limit)
  \/ \E op \in Operations : Search(op)
  \/ Stats
  \/ Clear

SpecLog == InitLog /\ [][NextLog]_vars

\* Specification of the tools pm_init, prd_new and prd_parse on one project
\* whose file system does not fail
ToolNames == {Feature, <<" ", "a", "B", "1">>, <<"a", "b">>, <<"!", "!">>}

ToolEpicPatches == {[status |-> "in-progress", progress |-> 50]}

ToolPrdPatches == {[status |-> "approved"]}

\* an empty working directory, or one where a PRD with a header that does
\* not pass the schema was put by hand
InitTools ==
  /\ tasks = [t \in TaskIds |-> NoFile]
  /\ epic = NoFile
  /\ memoryBank = NoFile
  /\ recordCalls = 0
  /\ lastOp = "none"
  /\ result = NoResult
  /\ input = NoInput
  /\ now = 0
  /\ appenders = <<>>
  /\ InitClient
  /\ \/ prd = NoFile /\ dirs = {}
     \/ prd = Malformed /\ dirs = {"claude", "prds"}

NextTools ==
  \/ InitClaudeStructure
  \/ PmInit(TRUE, TRUE)
  \/ \E name \in ToolNames : PrdNew(name, TRUE, TRUE)
  \/ \E name \in ToolNames : PrdParse(name, TRUE, TRUE)
  \/ \E p \in ToolEpicPatches : UpdateEpic(p)
  \/ \E p \in ToolPrdPatches : UpdatePrd(p)

SpecTools == InitTools /\ [][NextTools]_vars

\* Specification of the same tools when a write of the Memory Bank may fail
NextToolsFaulty ==
  \/ \E a \in BOOLEAN, b \in BOOLEAN : PmInit(a, b)
  \/ \E name \in ToolNames, a \in BOOLEAN, b \in BOOLEAN : PrdNew(name, a, b)
  \/ \E name \in ToolNames, a \in BOOLEAN, b \in BOOLEAN : PrdParse(name, a, b)

SpecToolsFaulty == InitTools /\ [][NextToolsFaulty]_vars

\* Specification of one document (a task, an epic or a PRD) created and
\* updated over time
DocKinds == {"task", "epic", "prd"}

Bodies == {"", "notes"}

Times == 0..MaxClock

TimePatches == {[created |-> c] : c \in Times} \cup {[updated |-> u] : u \in Times}

DocTaskPatches ==
  {<<>>, [status |-> "completed"], [status |-> "done"], [effort |-> "m"],
   [effort |-> "huge"], [status |-> "blocked", effort |-> "xl"]} \cup TimePatches

DocEpicPatches ==
  {<<>>, [status |-> "in-progress"], [status |-> "done"], [progress |-> 50],
   [progress |-> 101]} \cup TimePatches

DocPrdPatches ==
  {<<>>, [status |-> "approved"], [status |-> "open"]} \cup TimePatches

\* what may be stored at the path of a document of the given kind at the start
StoredDocs(kind) ==
  {NoFile, Malformed}
    \cup {[kind |-> kind, content |-> b,
           data |-> CASE kind = "task" -> createTaskFrontmatter(<<>>, 0).data
                      [] kind = "epic" -> createEpicFrontmatter(<<>>, 0).data
                      [] kind = "prd" -> createPrdFrontmatter(<<>>, 0).data] :
             b \in Bodies}

InitDoc ==
  /\ input \in {[fn |-> "document", kind |-> k] : k \in DocKinds}
  /\ tasks \in {[t \in TaskIds |-> IF t = 1 /\ input.kind = "task" THEN f ELSE NoFile] :
                   f \in StoredDocs("task")}
  /\ epic \in {IF input.kind = "epic" THEN f ELSE NoFile : f \in StoredDocs("epic")}
  /\ prd \in {IF input.kind = "prd" THEN f ELSE NoFile : f \in StoredDocs("prd")}
  /\ memoryBank = NoFile
  /\ recordCalls = 0
  /\ lastOp = "none"
  /\ result = NoResult
  /\ now = 0
  /\ dirs = {}
  /\ appenders = <<>>
  /\ InitClient

NextDoc ==
  \/ Tick
  \/ input.kind = "task" /\ \E p \in DocTaskPatches : CreateTask(1, p)
  \/ input.kind = "task" /\ \E p \in DocTaskPatches : UpdateTask(1, p)
  \/ input.kind = "epic" /\ epic.kind = "NoFile" /\ \E p \in DocEpicPatches : CreateEpic(p)
  \/ input.kind = "epic" /\ \E p \in DocEpicPatches : UpdateEpic(p)
  \/ input.kind = "prd" /\ \E p \in DocPrdPatches : CreatePrd(p)
  \/ input.kind = "prd" /\ \E p \in DocPrdPatches : UpdatePrd(p)

SpecDoc == InitDoc /\ [][NextDoc]_vars

\* Specification of sanitizeEpicName followed by validateEpicName
Strings(n) == UNION {[1..k -> Alphabet] : k \in 0..n}

\* names of exactly and of just over the longest valid length
LongNames == {[i \in 1..k |-> "a"] : k \in {MaxNameLength, MaxNameLength + 1}}

InitName ==
  /\ tasks = [t \in TaskIds |-> NoFile]
  /\ epic = NoFile
  /\ memoryBank = NoFile
  /\ recordCalls = 0
  /\ lastOp = "none"
  /\ result = NoResult
  /\ InitRest
  /\ input \in {[fn |-> "validateEpicName", name |-> str] :
                  str \in Strings(MaxStr) \cup LongNames}

\* validateEpicName(sanitizeEpicName(name))
ValidateSanitized ==
  /\ input.fn = "validateEpicName"
  /\ lastOp = "none"
  /\ result' = [kind |-> "validation",
                name |-> sanitizeEpicName(input.name),
                validation |-> validateEpicName(sanitizeEpicName(input.name))]
  /\ lastOp' = "validateEpicName"
  /\ UNCHANGED <<tasks, epic, memoryBank, recordCalls, input, now, prd, dirs, appenders,
               registry, cache, lookups, batch>>

NextName == ValidateSanitized

SpecName == InitName /\ [][NextName]_vars

\* Specification of logToMemoryBank calls running at the same time
AppendInputs ==
  {[operation |-> op, details |-> <<Text("created")>>, success |-> TRUE, error |-> <<>>] :
      op \in Operations}
  \cup
  {[operation |-> op, details |-> <<Text("created")>>, success |-> FALSE,
    error |-> <<Text("failed")>>] : op \in Operations}

InitAppend ==
  /\ tasks = [t \in TaskIds |-> NoFile]
  /\ epic = NoFile
  /\ memoryBank \in {NoFile, initMemoryBank(NoFile)}
  /\ recordCalls = 0
  /\ lastOp = "none"
  /\ result = NoResult
  /\ input = NoInput
  /\ now = 0
  /\ prd = NoFile
  /\ dirs = {}
  /\ appenders \in [AppenderIds ->
                      {[pc |-> "exists", entry |-> e, existingContent |-> <<>>] :
                         e \in AppendInputs}]
  /\ InitClient

NextAppend ==
  \/ \E p \in AppenderIds : LogExists(p)
  \/ \E p \in AppenderIds : LogInitExists(p)
  \/ \E p \in AppenderIds : LogInitWrite(p)
  \/ \E p \in AppenderIds : LogRead(p)
  \/ \E p \in AppenderIds : LogWrite(p)

SpecAppend == InitAppend /\ [][NextAppend]_vars

\* Definitions the properties are stated with

TaskFiles == {t \in TaskIds : tasks[t].kind # "NoFile"}

IsTask(t) == t \in TaskIds /\ tasks[t].kind = "task"

HasStatus(t, st) == IsTask(t) /\ tasks[t].data.status = st

DependsOn(t) == IF IsTask(t) THEN tasks[t].data.depends_on ELSE {}

RECURSIVE Reach(_)
Reach(S) ==
  LET more == S \cup UNION {DependsOn(x) : x \in S}
  IN IF more = S THEN S ELSE Reach(more)

\* every task that t depends on, directly or through other tasks
TransitiveDeps(t) == Reach(DependsOn(t))

StatusReported == lastOp = "epic_status" /\ result.kind = "status"

\* the stored task files are exactly 001, 002 (depends on 001), 003 (depends
\* on 002) with the given statuses
Chain(s1, s2, s3) ==
  /\ TaskFiles = {1, 2, 3}
  /\ HasStatus(1, s1) /\ DependsOn(1) = {}
  /\ HasStatus(2, s2) /\ DependsOn(2) = {1}
  /\ HasStatus(3, s3) /\ DependsOn(3) = {2}

C3_CycleRejected ==
  [][\A a \in EdgeIds, D \in EdgeSets :
        (/\ IsTask(a)
         /\ \E b \in D \ {a} : a \in TransitiveDeps(b)
         /\ UpdateTask(a, [depends_on |-> D]))
        => (/\ result'.kind = "error"
            /\ result'.error = "CircularDependency"
            /\ tasks' = tasks)]_vars

\* C4: the stored depends_on relation of the epic has no cycle.
C4_Acyclic == \A t \in TaskIds : t \notin TransitiveDeps(t)

\* C5: no stored task has an id in both depends_on and conflicts_with.
C5_NoOverlap ==
  \A t \in TaskIds :
     IsTask(t) => tasks[t].data.depends_on \cap tasks[t].data.conflicts_with = {}

\* C9: epic_status recommends closing exactly when the epic has a task file
\* and every task file is a completed task, and an epic_status call leaves
\* every stored file as it was.
C9_RecommendOnly ==
  /\ [](StatusReported =>
          (result.recommendClose <=>
             (TaskFiles # {} /\ \A t \in TaskFiles : HasStatus(t, "completed"))))
  /\ [][lastOp' = "epic_status" =>
          (tasks' = tasks /\ epic' = epic /\ memoryBank' = memoryBank)]_vars

C9_Witness ==
  /\ StatusReported
  /\ result.recommendClose
  /\ Cardinality(TaskFiles) >= 2
  /\ epic.data.status = "open"

\* C6: validateConflicts returns valid=false, naming an id that is in both
\* lists, exactly when depends_on and conflicts_with share an id, and
\* valid=true with no error otherwise.
C6_ConflictOverlap ==
  lastOp = "validateConflicts" =>
    LET shared == Range(input.dependencies) \cap Range(input.conflicts)
    IN /\ (shared # {}) <=> (result.valid = FALSE)
       /\ result.valid = FALSE => result.error \in shared
       /\ shared = {} => result = [valid |-> TRUE]

C6_Witness ==
  /\ lastOp = "validateConflicts"
  /\ result.valid = FALSE
  /\ Len(input.dependencies) >= 2
  /\ input.dependencies[1] \notin Range(input.conflicts)

\* C7: the stored epic progress equals round(100 * completedTasks /
\* totalTasks), or 0 when totalTasks = 0, and epic_status reports that
\* derived value.
C7_ProgressDerived ==
  /\ epic.kind = "epic" =>
       epic.data.progress =
          calculateProgress(epic.data.totalTasks, epic.data.completedTasks)
  /\ StatusReported =>
       result.progress = calculateProgress(result.totalTasks, result.completedTasks)

\* C8: with completedTasks < totalTasks, calculateProgress after one more
\* task is completed is at least calculateProgress before, and with
\* totalTasks = 0 it is 0.
C8_ProgressMonotone ==
  /\ [][(/\ lastOp' = "calculateProgress"
         /\ result.kind = "progress"
         /\ result.totalTasks = result'.totalTasks
         /\ result.completedTasks + 1 = result'.completedTasks)
        => result'.value >= result.value]_vars
  /\ []((lastOp = "calculateProgress" /\ result.totalTasks = 0) => result.value = 0)

C8_Witness ==
  /\ lastOp = "calculateProgress"
  /\ result.totalTasks = 8
  /\ result.completedTasks = 1
  /\ result.value = 13

\* the content of the log file, the header alone when there is no file yet
LogContent(file) == initMemoryBank(file).content

\* the entries a full scan of the log finds
EntryCount(file) == getMemoryBankStats(file).totalEntries

\* C10: a record call keeps the existing content in place and adds one
\* formatted entry at the end; query, search and stats change nothing; the
\* number of entries goes down only by a reset, which leaves the header and
\* no entry.
C10_AppendOnly ==
  [][/\ lastOp' = "record" =>
          /\ SubSeq(memoryBank'.content, 1, Len(LogContent(memoryBank)))
                = LogContent(memoryBank)
          /\ \E e \in EntryInputs :
                SubSeq(memoryBank'.content, Len(LogContent(memoryBank)) + 1,
                       Len(memoryBank'.content))
                   = <<Blank>> \o formatMemoryBankEntry(e)
          /\ EntryCount(memoryBank') > EntryCount(memoryBank)
     /\ lastOp' \in {"query", "search", "stats"} => memoryBank' = memoryBank
     /\ EntryCount(memoryBank') < EntryCount(memoryBank) => lastOp' = "reset"
     /\ lastOp' = "reset" =>
          /\ memoryBank'.content = MemoryBankHeader
          /\ EntryCount(memoryBank') = 0]_vars

C10_Witness ==
  /\ lastOp = "record"
  /\ recordCalls >= 2
  /\ EntryCount(memoryBank) >= 2

\* C11: whenever the statistics are read, totalEntries equals the number of
\* record calls made since the log was created or last reset.
C11_TotalEntries ==
  lastOp = "stats" => result.stats.totalEntries = recordCalls

ToolOps == {"pm_init", "prd_new", "prd_parse"}

\* C12: every call of pm_init, prd_new or prd_parse, whether it succeeds or
\* fails, appends exactly one entry to the audit log.
C12_OneEntryPerCall ==
  [][lastOp' \in ToolOps => EntryCount(memoryBank') = EntryCount(memoryBank) + 1]_vars

\* the chunks sub occur next to one another in content
Occurs(sub, content) ==
  \E i \in 0..(Len(content) - Len(sub)) : SubSeq(content, i + 1, i + Len(sub)) = sub

\* C13: once all the record calls that ran at the same time have completed,
\* the log holds the entry of each of them (one heading per call, and each
\* call's formatted entry).
C13_BothPresent ==
  (appenders # <<>> /\ \A p \in AppenderIds : appenders[p].pc = "done") =>
    /\ CountMarks(memoryBank.content, TRUE) + CountMarks(memoryBank.content, FALSE)
         = MaxAppenders
    /\ \A p \in AppenderIds :
          Occurs(formatMemoryBankEntry(appenders[p].entry), memoryBank.content)

\* the entity store: the layout and the PRD, epic and task files
entities == <<dirs, prd, epic, tasks>>

Succeeded(r) == r.kind = "tool" /\ ~r.isError
Failed(r) == r.kind = "tool" /\ r.isError

\* C14: a call of pm_init, prd_new or prd_parse that wrote its layout, PRD
\* or epic returns that outcome as a success, also when the write of its
\* audit entry fails; the failure of the audit write is not thrown.
C14_AuditFailureTolerated ==
  [][(lastOp' \in ToolOps /\ entities' # entities) => Succeeded(result')]_vars

\* the raw name sanitizes to a name shorter than a valid identifier
TooShort(name) == Len(sanitizeEpicName(name)) < MinNameLength

AlreadyExists(r) == Failed(r) \/ (r.kind = "tool" /\ r.text = "PRD already exists")

\* C16: prd_new for a feature whose PRD exists and prd_parse for a feature
\* whose epic exists fail and leave the stored PRD and epic as they were.
C16_NoOverwrite ==
  [][\A name \in ToolNames :
       /\ (sanitizeEpicName(name) = Feature /\ epic.kind # "NoFile"
              /\ PrdParse(name, TRUE, TRUE))
            => (AlreadyExists(result') /\ epic' = epic)
       /\ (sanitizeEpicName(name) = Feature /\ prd.kind # "NoFile"
              /\ PrdNew(name, TRUE, TRUE))
            => (AlreadyExists(result') /\ prd' = prd)]_vars

\* C17 as stated: initClaudeStructure or pm_init called on an initialized
\* project succeeds and leaves the layout and every stored file as it was.
C17_SecondInitNoOp ==
  [][((InitClaudeStructure \/ PmInit(TRUE, TRUE)) /\ isClaudeInitialized(dirs))
       => (result'.kind \in {"ok", "tool"} /\ entities' = entities
             /\ memoryBank' = memoryBank)]_vars

\* C17: on an initialized project initClaudeStructure succeeds and changes
\* nothing; pm_init succeeds and leaves the layout and the PRD, epic and
\* task files as they were, and appends one pm_init entry to the audit log.
C17_SecondInitKeepsEntities ==
  [][/\ (InitClaudeStructure /\ isClaudeInitialized(dirs))
          => (result' = Ok /\ entities' = entities /\ memoryBank' = memoryBank)
     /\ (PmInit(TRUE, TRUE) /\ isClaudeInitialized(dirs))
          => /\ result' = ToolResult(FALSE, "PM structure already initialized")
             /\ entities' = entities
             /\ memoryBank'.content =
                  LogContent(memoryBank) \o <<Blank>> \o
                    formatMemoryBankEntry(
                      SuccessEntry("pm_init", "PM structure already initialized"))]_vars

C17_Witness ==
  /\ lastOp = "pm_init"
  /\ result = ToolResult(FALSE, "PM structure already initialized")
  /\ prd.kind = "prd"
  /\ Occurs(formatMemoryBankEntry(
              SuccessEntry("pm_init", "PM structure initialized successfully")),
            memoryBank.content)

\* the header an update at time t must leave: the patch over the current
\* header, and t as updated
MergedHeader(cur, patch, t) ==
  [k \in DOMAIN cur \cup DOMAIN patch \cup {"updated"} |->
     IF k = "updated" THEN t
     ELSE IF k \in DOMAIN patch THEN patch[k] ELSE cur[k]]

\* the caller got a document with the given header and the old body, and stored it
UpdateReturned(old, new, header) ==
  /\ new.kind = old.kind
  /\ new.data = header
  /\ new.content = old.content
  /\ result' = Ok

UpdateThrew(old, new) == new = old /\ result' = ZodError

Headers ==
  {tasks[t].data : t \in {x \in TaskIds : tasks[x].kind = "task"}}
    \cup (IF epic.kind = "epic" THEN {epic.data} ELSE {})
    \cup (IF prd.kind = "prd" THEN {prd.data} ELSE {})

\* C19: every header produced by create and update calls under a clock
\* that never goes back has updated at or after created.
C19_UpdatedAfterCreated ==
  \A h \in Headers : h.updated >= h.created

\* number of alphanumeric characters of a string
AlnumCount(str) == Cardinality({i \in DOMAIN str : str[i] \in Alnum})

NameValidated == lastOp = "validateEpicName" /\ result.kind = "validation"

\* C20 as stated: validateEpicName(sanitizeEpicName(s)) is valid exactly when
\* s has at least three alphanumeric characters.
C20_ThreeAlnum ==
  NameValidated => (result.validation.valid <=> AlnumCount(input.name) >= 3)

\* C20: validateEpicName(sanitizeEpicName(s)) returns (it never throws) and
\* is valid exactly when the sanitized name is 3 to 50 characters long,
\* hyphens counted.
C20_SanitizedLength ==
  NameValidated =>
    (result.validation.valid <=>
       (Len(result.name) >= MinNameLength /\ Len(result.name) <= MaxNameLength))

C20_Witness ==
  /\ NameValidated
  /\ result.validation.valid
  /\ AlnumCount(input.name) < 3
  /\ \E i \in DOMAIN input.name : input.name[i] \in {"B", " ", "!"}

\* C29: epic_status puts every task file of the epic in exactly one of the
\* four buckets, so the four counts add up to the reported total.
C29_BucketsPartition ==
  StatusReported =>
    result.completedTasks + result.inProgressTasks + result.blockedTasks
      + result.openTasks = result.totalTasks

\* the heading chunks of a sequence of chunks, in their order
HeadingsOf(content) == SelectSeq(content, LAMBDA c : c.c = "heading")

\* the headings of a sequence of entries, entry by entry
RECURSIVE HeadingsOfAll(_)
HeadingsOfAll(entries) ==
  IF entries = <<>> THEN <<>>
  ELSE HeadingsOf(Head(entries)) \o HeadingsOfAll(Tail(entries))

\* the headings of the recorded entries, newest first
NewestFirst == Reverse(HeadingsOf(LogContent(memoryBank)))

\* C22: readRecentEntries(limit) returns the min(limit, n) newest of the n
\* recorded entries, newest first, and searchMemoryBank(op) returns the
\* recorded entries whose operation matches op, newest first.  Entries are
\* told apart by their heading lines.
C22_NewestFirst ==
  [][/\ \A limit \in 1..MaxEntries :
          ReadRecent(limit) =>
            HeadingsOfAll(result'.entries)
              = SubSeq(NewestFirst, 1, Min(limit, Len(NewestFirst)))
     /\ \A op \in Operations :
          Search(op) =>
            HeadingsOfAll(result'.entries)
              = SelectSeq(NewestFirst, LAMBDA h : IsPrefix(op, h.operation))]_vars

\* the task numbers reached from the set S along the dependency lists of m
RECURSIVE ReachIn(_, _)
ReachIn(S, m) ==
  LET more == S \cup UNION {Range(m[x]) : x \in S \cap DOMAIN m}
  IN IF more = S THEN S ELSE ReachIn(more, m)

CircularChecked == lastOp = "hasCircularDependency" /\ result.kind = "circular"

digitValue(c) == CASE c = "0" -> 0 [] c = "1" -> 1 [] c = "2" -> 2

TaskFileNumber(name) ==
  100 * digitValue(name[1]) + 10 * digitValue(name[2]) + digitValue(name[3])

ThreeDigitFiles ==
  {n \in DOMAIN input.entries :
     /\ input.entries[n]
     /\ Len(n) = 6
     /\ \A i \in 1..3 : n[i] \in {"0", "1", "2"}
     /\ n[4] = "." /\ n[5] = "m" /\ n[6] = "d"}

Listed == lastOp = "listTasks" /\ result.kind = "names"

\* C21: listTasks returns exactly the files of the epic directory named by
\* three digits and .md, each once, in ascending order of their number;
\* other names, directories and a missing directory contribute nothing.
C21_ThreeDigitFilesAscending ==
  Listed =>
    /\ Range(result.value) = (IF input.dirExists THEN ThreeDigitFiles ELSE {})
    /\ \A i, j \in DOMAIN result.value :
          i < j => TaskFileNumber(result.value[i]) < TaskFileNumber(result.value[j])

\* a task file listed from a directory that also holds a file of another name
C21_Witness ==
  /\ Listed
  /\ Len(result.value) >= 1
  /\ Cardinality(DOMAIN input.entries) > Len(result.value)
  /\ \E n \in DOMAIN input.entries : input.entries[n] /\ n \notin Range(result.value)

Registering == lastOp' = "register" /\ input'.fn = "register"

Updating == lastOp' = "update" /\ input'.fn = "update"

Deprecating == lastOp' = "deprecate" /\ input'.fn = "deprecate"

\* C23: register(name, descriptor) throws 'already registered' whenever the
\* registry holds name, deprecated or not, whatever the descriptor given, and
\* the registry, the descriptor stored under name included, stays as it was.
C23_DuplicateRejected ==
  [][(Registering /\ has(registry, input'.name)) =>
        /\ result'.kind = "error"
        /\ result'.message = "already registered"
        /\ result'.about = input'.name
        /\ get(registry', input'.name) = get(registry, input'.name)
        /\ registry' = registry]_vars

\* a register call, with a descriptor of its own, refused for a name whose
\* tool is deprecated
C23_Witness ==
  /\ lastOp = "register"
  /\ result.kind = "error"
  /\ result.message = "already registered"
  /\ has(registry, input.name)
  /\ get(registry, input.name).deprecated
  /\ input.metadata.category # get(registry, input.name).category
  /\ input.metadata.version # ""

\* the messages that name a field the descriptor lacks
MissingFieldMessages(metadata) ==
  {msg \in {"Tool name is required", "Tool description is required",
            "Tool input schema is required", "At least one Context7 query is required",
            "Tool version is required", "Tool category is required"} :
     \/ msg = "Tool name is required" /\ metadata.name \in {"", " "}
     \/ msg = "Tool description is required" /\ metadata.description = ""
     \/ msg = "Tool input schema is required" /\ metadata.inputSchema = ""
     \/ /\ msg = "At least one Context7 query is required"
        /\ metadata.context7Queries \in {Undefined, ListOfRefs(<<>>)}
     \/ msg = "Tool version is required" /\ metadata.version = ""
     \/ msg = "Tool category is required" /\ metadata.category = ""}

\* every reference of the descriptor starts with mcp://context7/
ReferencesWellFormed(metadata) ==
  \/ metadata.context7Queries = Undefined
  \/ \A i \in DOMAIN metadata.context7Queries.items :
        metadata.context7Queries.items[i].scheme = "mcp://context7/"

\* the messages allowed by the amended claim
DefectMessages(metadata) ==
  MissingFieldMessages(metadata)
    \cup (IF ReferencesWellFormed(metadata) THEN {} ELSE {"Invalid Context7 query format"})

\* the descriptor that update validates
Merged == Spread(get(registry, input'.name), input'.metadata)

\* register of a new name with a descriptor that lacks a field
RegisteringIncomplete ==
  /\ Registering
  /\ ~has(registry, input'.name)
  /\ MissingFieldMessages(input'.metadata) # {}

\* update of a stored tool to a descriptor that lacks a field
UpdatingIncomplete ==
  /\ Updating
  /\ has(registry, input'.name)
  /\ MissingFieldMessages(Merged) # {}

\* the call throws and the registry stays as it was
Refused ==
  /\ result'.kind = "error"
  /\ registry' = registry
  /\ has(registry', input'.name) = has(registry, input'.name)
  /\ getStats(registry').totalTools = getStats(registry).totalTools

\* C24 as stated: register of a new name with a descriptor that lacks a
\* name, description, input schema, version, category or every documentation
\* reference throws an error naming a missing field and adds nothing; update
\* does the same for the merged descriptor and keeps the stored one.
C24_NamesMissingField ==
  [][/\ RegisteringIncomplete =>
           Refused /\ result'.message \in MissingFieldMessages(input'.metadata)
     /\ UpdatingIncomplete =>
           Refused /\ result'.message \in MissingFieldMessages(Merged)]_vars

\* C24, amended: such a register or update call always throws and changes
\* nothing; the error names a missing field when every reference of the
\* descriptor starts with mcp://context7/, and otherwise names a missing
\* field or the format of the reference.
C24_RefusesIncomplete ==
  [][/\ RegisteringIncomplete =>
           Refused /\ result'.message \in DefectMessages(input'.metadata)
     /\ UpdatingIncomplete =>
           Refused /\ result'.message \in DefectMessages(Merged)]_vars

\* an update refused for a missing version while the tool stays registered
\* with the version it had
C24_Witness ==
  /\ lastOp = "update"
  /\ result.kind = "error"
  /\ result.message = "Tool version is required"
  /\ has(registry, input.name)
  /\ get(registry, input.name).version # ""

\* C26: deprecate(name[, replacement]) of a registered tool keeps it in the
\* registry: has(name) is true, get(name) has deprecated = true and the
\* replacement when one was given, totalTools is unchanged, the deprecated
\* count of getStats includes it, no getByCategory listing holds it and the
\* other tools are untouched; for an unknown name it throws and changes nothing.
C26_DeprecatedStays ==
  [][Deprecating =>
       IF has(registry, input'.name)
       THEN /\ result'.kind = "returned"
            /\ has(registry', input'.name)
            /\ get(registry', input'.name).deprecated
            /\ input'.replacedBy # "" =>
                 get(registry', input'.name).replacedBy = input'.replacedBy
            /\ getStats(registry').totalTools = getStats(registry).totalTools
            /\ getStats(registry').deprecated =
                 getStats(registry).deprecated
                   + (IF get(registry, input'.name).deprecated THEN 0 ELSE 1)
            /\ getStats(registry').deprecated >= 1
            /\ \A c \in ToolCategories :
                  \A i \in DOMAIN getByCategory(registry', c) :
                     getByCategory(registry', c)[i] # get(registry', input'.name)
            /\ \A other \in RegisteredNames \ {input'.name} :
                  get(registry', other) = get(registry, other)
       ELSE /\ result'.kind = "error"
            /\ result'.message = "not found"
            /\ registry' = registry]_vars

\* a tool deprecated with a replacement next to a listed tool of its category
C26_Witness ==
  /\ lastOp = "deprecate"
  /\ result.kind = "returned"
  /\ Len(registry) = 2
  /\ \E i, j \in DOMAIN registry :
        /\ registry[i].key = input.name
        /\ registry[i].value.deprecated
        /\ registry[i].value.replacedBy = registry[j].key
        /\ ~registry[j].value.deprecated
        /\ registry[i].value.category = registry[j].value.category
        /\ getByCategory(registry, registry[i].value.category) = <<registry[j].value>>

ToolRegistered == lastOp' = "registerTool" /\ result'.kind = "registerTool"

\* the list is missing or empty, or holds a reference of another prefix
Unacceptable(queries) ==
  \/ queries = Undefined
  \/ queries.items = <<>>
  \/ \E i \in DOMAIN queries.items : queries.items[i].scheme # "mcp://context7/"

\* the path segments of a reference: the pieces between the slashes of the
\* text after mcp://context7/, empty pieces counted
SegmentCount(query) == 1 + Cardinality({k \in DOMAIN query.rest : query.rest[k] = "/"})

\* the references of a list with fewer than two segments, once for each place
\* where they stand
ShortRefs(items) == SelectSeq(items, LAMBDA query : SegmentCount(query) < 2)

\* C25: validateQueries returns valid = false, and registerTool throws and
\* leaves the registry as it was, when the list of references is undefined or
\* empty or holds a reference that does not start with mcp://context7/;
\* otherwise it returns valid = true with one warning for each reference of
\* fewer than two path segments and no other, and the tool is registered
\* when its name is new.
C25_ReferenceShape ==
  [][ToolRegistered =>
       IF Unacceptable(input.metadata.context7Queries)
       THEN /\ ~result'.validation.valid
            /\ result'.outcome.kind = "error"
            /\ registry' = registry
       ELSE /\ result'.validation.valid
            /\ result'.validation.warnings = ShortRefs(input.metadata.context7Queries.items)
            /\ ~has(registry, input.name) =>
                 /\ result'.outcome.kind = "returned"
                 /\ get(registry', input.name) = input.metadata]_vars

\* a tool registered with one warning, for the shorter of its two references
C25_Witness ==
  /\ lastOp = "registerTool"
  /\ result.validation.valid
  /\ Len(result.validation.warnings) = 1
  /\ Len(input.metadata.context7Queries.items) = 2
  /\ result.outcome.kind = "returned"
  /\ has(registry, input.name)
  /\ get(registry, input.name).context7Queries = input.metadata.context7Queries

\* the reference names a library and a topic: mcp://context7/, a library
\* without slash, a slash and a topic
HasLibraryAndTopic(query) ==
  /\ query.scheme = "mcp://context7/"
  /\ \E i \in 2..(Len(query.rest) - 1) :
        /\ query.rest[i] = "/"
        /\ \A j \in 1..(i - 1) : query.rest[j] # "/"

\* docs has one entry for each reference asked for, an 'Error: ...' string
\* where the reference does not parse, and a document or an 'Error: ...'
\* string where it does
OneEntryPerReference(docs, queries) ==
  /\ {docs[i].key : i \in DOMAIN docs} = Range(queries)
  /\ Len(docs) = Cardinality(Range(queries))
  /\ \A i \in DOMAIN docs :
        IF HasLibraryAndTopic(docs[i].key)
        THEN docs[i].value.kind \in {"doc", "Error"}
        ELSE docs[i].value.kind = "Error"

\* C27: a tool call whose references fail to resolve still calls the handler
\* exactly once and returns its result, and hands it the map of queryAll;
\* queryAll never rejects and returns a map with one entry for each reference
\* asked for, an 'Error: ...' string for those that failed to parse or to
\* resolve.
C27_ResolutionFailureTolerated ==
  /\ result.kind = "toolCall" =>
        /\ result.handlerCalls = 1
        /\ result.value = "handler result"
        /\ result.context7Docs # Undefined
        /\ OneEntryPerReference(result.context7Docs.value, result.queries)
  /\ result.kind = "queryAll" =>
        /\ ~result.rejected
        /\ OneEntryPerReference(result.docs, result.queries)

\* a tool call returned although one reference did not parse and the lookup
\* of the other failed
C27_Witness ==
  /\ result.kind = "toolCall"
  /\ result.handlerCalls = 1
  /\ result.queries = <<[scheme |-> "mcp://context7/", rest |-> <<"a">>],
                        [scheme |-> "mcp://context7/", rest |-> <<"a", "/", "a">>]>>
  /\ \A i \in DOMAIN result.context7Docs.value :
        result.context7Docs.value[i].value.kind = "Error"

\* the cache has one entry for each key, and none when caching is disabled
\* or clearCache ran last
CacheWellFormed ==
  /\ \A i, j \in DOMAIN cache : i # j => cache[i].key # cache[j].key
  /\ ~input.enableCache => cache = <<>>
  /\ lastOp = "clearCache" => cache = <<>>

\* C30: an entry that query returns from the cache is younger than cacheTTL;
\* otherwise query awaits a new lookup, and when that returns the entry of
\* the key holds the document with the time of the return; in every state
\* reached by query, queryAll and clearCache calls, overlapping ones
\* included, the cache has at most one entry for each library/topic key, and
\* none when caching is disabled or clearCache ran last.
C30_CacheFreshAndSingle ==
  [][/\ CacheWellFormed'
     /\ (/\ lastOp' = "query"
         /\ result'.kind = "query"
         /\ result'.fromCache) =>
           /\ input.enableCache
           /\ MapHas(cache, result'.key)
           /\ now - MapGet(cache, result'.key).timestamp < input.cacheTTL
           /\ result'.value = MapGet(cache, result'.key).content
           /\ cache' = cache
     /\ (/\ lastOp' = "lookupDone"
         /\ result' # result
         /\ result'.kind = "query"
         /\ input.enableCache) =>
           MapGet(cache', result'.key) = [content |-> result'.value, timestamp |-> now]]_vars

\* a query that found an entry of age cacheTTL or more has returned from its
\* lookup, and the cache holds the new entry next to that of another key
C30_Witness ==
  /\ lastOp = "lookupDone"
  /\ result.kind = "query"
  /\ ~result.fromCache
  /\ result.cached # Undefined
  /\ now - result.cached.timestamp >= input.cacheTTL
  /\ MapGet(cache, result.key).timestamp = now
  /\ Len(cache) = 2
====
